---- MODULE Spec2Model ----
(***************************************************************************)
(* A state-machine model of the aira TIFF reader: the structural decoder   *)
(* (crates/aira-tiff/src/decoder.rs), the metadata builder and the chunk   *)
(* iterator (crates/aira-tiff/src/metadata.rs).                            *)
(*                                                                         *)
(* A u64 is a sequence of eight base-256 digits, least significant first,  *)
(* so that 64-bit overflow (checked_mul / checked_add) is computed exactly.*)
(***************************************************************************)
EXTENDS Integers, Sequences, FiniteSets, TLC

VARIABLES
    file,         \* the bytes of the underlying source (never written)
    pos,          \* the stream position of the shared reader (a u64)
    decoder,      \* Decoder { reader.byteorder, version }, once constructed
    directories,  \* Directories { next_offset_loc }
    directory,    \* the Directory handle last yielded and still alive
    entries,      \* Entries { entries_count, entry_offset }
    entry,        \* the Entry handle last yielded and still alive
    result,       \* the outcome of the last call
    yielded,      \* history: the Directory handles yielded by the iterator
    pending,      \* the entries of the directory from_decoder has yet to push
    builder,      \* MetadataBuilder: the optional fields collected so far
    metadata,     \* the value returned by MetadataBuilder::build
    chunks,       \* Chunks iterator: the two ends of the enumerated slice
    overflow_checks, \* build profile: arithmetic overflow panics or wraps
    reader,       \* the byte-stream reader under test and its inner reader
    output,       \* history: the bytes the reader's Ok(n) results reported
    operands      \* the arguments of the pure function under test

vars == <<file, pos, decoder, directories, directory, entries, entry, result,
          yielded, pending, builder, metadata, chunks, overflow_checks,
          reader, output, operands>>

decoderVars == <<file, pos, decoder, directories, directory, entries, entry,
                 yielded>>
metadataVars == <<pending, builder, metadata, chunks, overflow_checks>>
streamVars == <<reader, output>>
pureVars == <<operands>>

(***************************************************************************)
(* Bounds of the model.                                                    *)
(***************************************************************************)
MaxYielded == 4       \* directories yielded by one Directories iterator
MaxBuffer == 2        \* longest buffer handed to Entry::decode_into
MaxDecodes == 1       \* decode / decode_into calls on one Entry handle

(***************************************************************************)
(* 64-bit unsigned integers as eight little-endian base-256 digits.        *)
(***************************************************************************)
Zeros(n) == [i \in 1..n |-> 0]

Reverse(s) == [i \in 1..Len(s) |-> s[Len(s) + 1 - i]]

RECURSIVE Digits(_, _)
Digits(n, k) == IF k = 0 THEN <<>> ELSE <<n % 256>> \o Digits(n \div 256, k - 1)

U64(n) == Digits(n, 8)

None == <<>>

Fits(d) == \A i \in 4..8 : d[i] = 0

ToNat(d) == d[1] + 256 * d[2] + 65536 * d[3]

RECURSIVE AddCarry(_, _, _, _)
AddCarry(a, b, i, c) ==
    IF i > 8 THEN <<c>>
    ELSE LET s == a[i] + b[i] + c
         IN  <<s % 256>> \o AddCarry(a, b, i + 1, s \div 256)

\* u64::checked_add
checked_add(a, b) ==
    LET r == AddCarry(a, b, 1, 0)
    IN  IF r[9] = 0 THEN SubSeq(r, 1, 8) ELSE None

RECURSIVE MulCarry(_, _, _, _)
MulCarry(a, k, i, c) ==
    IF i > 8 THEN <<c>>
    ELSE LET s == a[i] * k + c
         IN  <<s % 256>> \o MulCarry(a, k, i + 1, s \div 256)

\* u64::checked_mul by a small factor (an entry size or a datatype size)
checked_mul(a, k) ==
    LET r == MulCarry(a, k, 1, 0)
    IN  IF r[9] = 0 THEN SubSeq(r, 1, 8) ELSE None

RECURSIVE SubBorrow(_, _, _)
SubBorrow(a, i, b) ==
    IF i > 8 THEN <<b>>
    ELSE LET s == a[i] - b
         IN  IF s < 0 THEN <<s + 256>> \o SubBorrow(a, i + 1, 1)
             ELSE <<s>> \o SubBorrow(a, i + 1, 0)

\* u64::checked_sub(1)
checked_sub1(a) ==
    LET r == SubBorrow(a, 1, 1)
    IN  IF r[9] = 0 THEN SubSeq(r, 1, 8) ELSE None

(***************************************************************************)
(* The endian-aware reader over the seekable source.                       *)
(***************************************************************************)
\* Read::read_exact of n bytes at position p: the bytes, or UnexpectedEof
read_exact(p, n) ==
    IF n = 0
    THEN [ok |-> TRUE, bytes |-> <<>>, pos |-> p]
    ELSE IF Fits(p) /\ ToNat(p) + n <= Len(file)
    THEN [ok |-> TRUE,
          bytes |-> SubSeq(file, ToNat(p) + 1, ToNat(p) + n),
          pos |-> U64(ToNat(p) + n)]
    ELSE [ok |-> FALSE, bytes |-> <<>>, pos |-> U64(Len(file))]

\* a mutant: the seek is lost and the reader stays where it stands
seek_lost(p) == pos

\* Seek::seek(SeekFrom::Start(p)): the position the next read starts at
seek(p) == p

\* byteorder::{LittleEndian, BigEndian}: the digits of a value from its bytes
from_bytes(bo, b) == IF bo = "LittleEndian" THEN b ELSE Reverse(b)

\* EndianReader::read_u16 / read_u32 / read_u64, widened to u64 (`as u64`)
read_uint(bo, p, n) ==
    LET r == read_exact(p, n)
    IN  [ok |-> r.ok,
         value |-> IF r.ok THEN from_bytes(bo, r.bytes) \o Zeros(8 - n) ELSE None,
         pos |-> r.pos]

(***************************************************************************)
(* Header parse: Decoder::new.                                             *)
(***************************************************************************)
\* ByteOrder::try_from_signature
try_from_signature(signature) ==
    IF signature = <<77, 77>> THEN "BigEndian"
    ELSE IF signature = <<73, 73>> THEN "LittleEndian"
    ELSE "Err"

\* a mutant: every version word but 42 is taken for BigTiff
Version_try_from_u16_lax(version) ==
    IF version = 42 THEN "Classic" ELSE "BigTiff"

\* Version::try_from_u16
Version_try_from_u16(version) ==
    IF version = 42 THEN "Classic"
    ELSE IF version = 43 THEN "BigTiff"
    ELSE "Err"

NoDecoder == [some |-> FALSE, byteorder |-> "", version |-> ""]

\* Decoder::new(reader), the reader standing at position p
Decoder_new(p) ==
    LET signature == read_exact(p, 2)
        byteorder == try_from_signature(signature.bytes)
        word      == read_uint(byteorder, signature.pos, 2)
        version   == Version_try_from_u16(ToNat(word.value))
        offset_size == read_uint(byteorder, word.pos, 2)
        padding     == read_uint(byteorder, offset_size.pos, 2)
    IN  IF ~signature.ok
        THEN [kind |-> "Err", decoder |-> NoDecoder, pos |-> signature.pos, io |-> 1]
        ELSE IF byteorder = "Err"
        THEN [kind |-> "Err", decoder |-> NoDecoder, pos |-> signature.pos, io |-> 1]
        ELSE IF ~word.ok
        THEN [kind |-> "Err", decoder |-> NoDecoder, pos |-> word.pos, io |-> 2]
        ELSE IF version = "Err"
        THEN [kind |-> "Err", decoder |-> NoDecoder, pos |-> word.pos, io |-> 2]
        ELSE IF version = "BigTiff"
        THEN IF ~offset_size.ok
             THEN [kind |-> "Err", decoder |-> NoDecoder,
                   pos |-> offset_size.pos, io |-> 3]
             ELSE IF ~padding.ok
             THEN [kind |-> "Err", decoder |-> NoDecoder,
                   pos |-> padding.pos, io |-> 4]
             ELSE IF ToNat(offset_size.value) /= 8 \/ ToNat(padding.value) /= 0
             THEN [kind |-> "Err", decoder |-> NoDecoder,
                   pos |-> padding.pos, io |-> 4]
             ELSE [kind |-> "Ok",
                   decoder |-> [some |-> TRUE, byteorder |-> byteorder,
                                version |-> version],
                   pos |-> padding.pos, io |-> 4]
        ELSE [kind |-> "Ok",
              decoder |-> [some |-> TRUE, byteorder |-> byteorder,
                           version |-> version],
              pos |-> word.pos, io |-> 2]

(***************************************************************************)
(* The layout of the two file versions.                                    *)
(***************************************************************************)
\* the width of an offset word: read_u32 for Classic, read_u64 for BigTiff
offset_width(version) == IF version = "Classic" THEN 4 ELSE 8

\* a mutant: the Classic width of the entry count for both versions
entries_count_width_classic(version) == 2

\* the width of a directory's entry count: read_u16 / read_u64
entries_count_width(version) == IF version = "Classic" THEN 2 ELSE 8

\* the width of an entry's value count: read_u32 / read_u64
count_width(version) == IF version = "Classic" THEN 4 ELSE 8

\* a mutant: the Classic entry size for both versions
entry_size_classic(version) == 12

\* entry_size
entry_size(version) == IF version = "Classic" THEN 12 ELSE 20

\* a mutant: the Classic budget for both versions
max_data_size_classic(version) == 4

\* max_data_size: the inline-value budget
max_data_size(version) == IF version = "Classic" THEN 4 ELSE 8

\* Decoder::directories: the location of the first-IFD offset word
first_offset_loc(version) == IF version = "Classic" THEN 4 ELSE 8

(***************************************************************************)
(* Directory walk: Directories::next_directory.                            *)
(***************************************************************************)
NoDirectory == [some |-> FALSE, entries_count |-> None, offset |-> None,
                next_offset |-> None]

NoDirectories == [some |-> FALSE, next_offset_loc |-> None]

\* Directories::next_directory, from the seek to the directory at offset on:
\* the entry count, the location of the next offset word, the peek at it
read_directory(loc, offset) ==
    LET bo      == decoder.byteorder
        version == decoder.version
        entries_count == read_uint(bo, seek(offset), entries_count_width(version))
        first_entry_offset == entries_count.pos
        product == checked_mul(entries_count.value, entry_size(version))
        next_offset_loc == checked_add(product, first_entry_offset)
        next_offset == read_uint(bo, seek(next_offset_loc), offset_width(version))
    IN  IF ~entries_count.ok
        THEN [kind |-> "Err", next_offset_loc |-> loc, directory |-> NoDirectory,
              pos |-> entries_count.pos, io |-> 4, word |-> offset]
        ELSE IF product = None
        THEN [kind |-> "Panic", next_offset_loc |-> loc, directory |-> NoDirectory,
              pos |-> entries_count.pos, io |-> 4, word |-> offset]
        ELSE IF next_offset_loc = None
        THEN [kind |-> "Panic", next_offset_loc |-> loc, directory |-> NoDirectory,
              pos |-> entries_count.pos, io |-> 4, word |-> offset]
        ELSE IF ~next_offset.ok
        THEN [kind |-> "Err", next_offset_loc |-> next_offset_loc,
              directory |-> NoDirectory,
              pos |-> next_offset.pos, io |-> 6, word |-> offset]
        ELSE [kind |-> "Some", next_offset_loc |-> next_offset_loc,
              directory |-> [some |-> TRUE,
                             entries_count |-> entries_count.value,
                             offset |-> offset,
                             next_offset |-> next_offset.value],
              pos |-> next_offset.pos, io |-> 6, word |-> offset]

\* a mutant: the iterator does not store the location it computed
next_directory_stale(loc) ==
    LET offset == read_uint(decoder.byteorder, seek(loc),
                            offset_width(decoder.version))
    IN  IF loc = None
        THEN [kind |-> "None", next_offset_loc |-> None, directory |-> NoDirectory,
              pos |-> pos, io |-> 0, word |-> None]
        ELSE IF ~offset.ok
        THEN [kind |-> "Err", next_offset_loc |-> loc, directory |-> NoDirectory,
              pos |-> offset.pos, io |-> 2, word |-> None]
        ELSE IF offset.value = U64(0)
        THEN [kind |-> "None", next_offset_loc |-> None, directory |-> NoDirectory,
              pos |-> offset.pos, io |-> 2, word |-> offset.value]
        ELSE [read_directory(loc, offset.value) EXCEPT !.next_offset_loc = loc]

\* Directories::next_directory with self.next_offset_loc = loc.
\* word is the offset word read at loc (None when none was read).
next_directory(loc) ==
    LET offset == read_uint(decoder.byteorder, seek(loc),
                            offset_width(decoder.version))
    IN  IF loc = None
        THEN [kind |-> "None", next_offset_loc |-> None, directory |-> NoDirectory,
              pos |-> pos, io |-> 0, word |-> None]
        ELSE IF ~offset.ok
        THEN [kind |-> "Err", next_offset_loc |-> loc, directory |-> NoDirectory,
              pos |-> offset.pos, io |-> 2, word |-> None]
        ELSE IF offset.value = U64(0)
        THEN [kind |-> "None", next_offset_loc |-> None, directory |-> NoDirectory,
              pos |-> offset.pos, io |-> 2, word |-> offset.value]
        ELSE read_directory(loc, offset.value)

(***************************************************************************)
(* Datatypes of directory entries.                                         *)
(***************************************************************************)
DTypes == {"Byte", "Ascii", "Short", "Long", "Rational", "SignedByte",
           "Undefined", "SignedShort", "SignedLong", "SignedRational",
           "Float", "Double", "Ifd", "BigLong", "BigSignedLong", "BigIfd"}

\* DType::try_from_u16
DType_try_from_u16(value) ==
    CASE value = 1 -> "Byte"
      [] value = 2 -> "Ascii"
      [] value = 3 -> "Short"
      [] value = 4 -> "Long"
      [] value = 5 -> "Rational"
      [] value = 6 -> "SignedByte"
      [] value = 7 -> "Undefined"
      [] value = 8 -> "SignedShort"
      [] value = 9 -> "SignedLong"
      [] value = 10 -> "SignedRational"
      [] value = 11 -> "Float"
      [] value = 12 -> "Double"
      [] value = 13 -> "Ifd"
      [] value = 16 -> "BigLong"
      [] value = 17 -> "BigSignedLong"
      [] value = 18 -> "BigIfd"
      [] OTHER -> "Err"

\* DType::size
size(dtype) ==
    IF dtype \in {"Byte", "Ascii", "SignedByte", "Undefined"} THEN 1
    ELSE IF dtype \in {"Short", "SignedShort"} THEN 2
    ELSE IF dtype \in {"Long", "SignedLong", "Float", "Ifd"} THEN 4
    ELSE 8

(***************************************************************************)
(* Entry walk: Directory::entries and Entries::next_entry.                 *)
(***************************************************************************)
\* origin, total and index are history: the offset and the entry count of the
\* directory the iterator was made from, and the number of entries yielded.
NoEntries == [some |-> FALSE, entries_count |-> None, entry_offset |-> None,
              origin |-> None, total |-> None, index |-> 0]

\* slot, index and decodes are history: where the entry was read, its rank,
\* and the number of decode calls made on the handle.
NoEntry == [some |-> FALSE, tag |-> 0, dtype |-> "", count |-> None,
            offset |-> None, slot |-> None, index |-> 0, decodes |-> 0]

\* Directory::entries
Directory_entries(d) ==
    LET entry_offset ==
            checked_add(d.offset, U64(entries_count_width(decoder.version)))
    IN  IF entry_offset = None
        THEN [kind |-> "Panic", entries |-> NoEntries]
        ELSE [kind |-> "Ok",
              entries |-> [some |-> TRUE,
                           entries_count |-> d.entries_count,
                           entry_offset |-> entry_offset,
                           origin |-> d.offset,
                           total |-> d.entries_count,
                           index |-> 0]]

\* a mutant: a failed call moves the iterator on to the next entry
on_error_skip(e) ==
    [e EXCEPT !.entries_count = checked_sub1(@),
              !.entry_offset = checked_add(@, U64(entry_size(decoder.version))),
              !.index = @ + 1]

\* the iterator after a call of next_entry that failed: every `?` returns
\* before the update of entries_count and entry_offset
on_error(e) == e

\* Entries::next_entry on the iterator e
next_entry(e) ==
    LET bo      == decoder.byteorder
        version == decoder.version
        tag     == read_uint(bo, seek(e.entry_offset), 2)
        code    == read_uint(bo, tag.pos, 2)
        dtype   == DType_try_from_u16(ToNat(code.value))
        count   == read_uint(bo, code.pos, count_width(version))
        data_size == checked_mul(count.value, size(dtype))
        inline  == Fits(data_size) /\ ToNat(data_size) <= max_data_size(version)
        offset  == read_uint(bo, count.pos, offset_width(version))
        entries_count == checked_sub1(e.entries_count)
        entry_offset  == checked_add(e.entry_offset, U64(entry_size(version)))
    IN  IF e.entries_count = U64(0)
        THEN [kind |-> "None", entries |-> e, entry |-> NoEntry,
              pos |-> pos, io |-> 0]
        ELSE IF ~tag.ok
        THEN [kind |-> "Err", entries |-> on_error(e), entry |-> NoEntry,
              pos |-> tag.pos, io |-> 2]
        ELSE IF ~code.ok
        THEN [kind |-> "Err", entries |-> on_error(e), entry |-> NoEntry,
              pos |-> code.pos, io |-> 3]
        ELSE IF dtype = "Err"
        THEN [kind |-> "Err", entries |-> on_error(e), entry |-> NoEntry,
              pos |-> code.pos, io |-> 3]
        ELSE IF ~count.ok
        THEN [kind |-> "Err", entries |-> on_error(e), entry |-> NoEntry,
              pos |-> count.pos, io |-> 4]
        ELSE IF data_size = None
        THEN [kind |-> "Panic", entries |-> e, entry |-> NoEntry,
              pos |-> count.pos, io |-> 4]
        ELSE IF ~inline /\ ~offset.ok
        THEN [kind |-> "Err", entries |-> on_error(e), entry |-> NoEntry,
              pos |-> offset.pos, io |-> 5]
        ELSE IF entries_count = None \/ entry_offset = None
        THEN [kind |-> "Panic", entries |-> e, entry |-> NoEntry,
              pos |-> IF inline THEN count.pos ELSE offset.pos,
              io |-> IF inline THEN 4 ELSE 5]
        ELSE [kind |-> "Some",
              entries |-> [e EXCEPT !.entries_count = entries_count,
                                    !.entry_offset = entry_offset,
                                    !.index = e.index + 1],
              entry |-> [some |-> TRUE,
                         tag |-> ToNat(tag.value),
                         dtype |-> dtype,
                         count |-> count.value,
                         offset |-> IF inline THEN count.pos ELSE offset.value,
                         slot |-> e.entry_offset,
                         index |-> e.index,
                         decodes |-> 0],
              pos |-> IF inline THEN count.pos ELSE offset.pos,
              io |-> IF inline THEN 4 ELSE 5]

(***************************************************************************)
(* Single-entry decode: Entry::decode and Entry::decode_into.              *)
(***************************************************************************)
DecodeTypes == {"u8", "u16", "u32", "u64", "i8", "i16", "i32", "i64",
                "f32", "f64", "(u32, u32)", "(i32, i32)",
                "Ratio<u32>", "Ratio<i32>"}

\* a mutant: any datatype of the width of T is accepted
is_dtype_good_by_size(T, dtype) ==
    size(dtype) = (IF T \in {"u8", "i8"} THEN 1
                   ELSE IF T \in {"u16", "i16"} THEN 2
                   ELSE IF T \in {"u32", "i32", "f32"} THEN 4
                   ELSE 8)

\* sealed::Decode::is_dtype_good
is_dtype_good(T, dtype) ==
    CASE T = "u8" -> dtype \in {"Byte", "Ascii", "Undefined"}
      [] T = "u16" -> dtype = "Short"
      [] T = "u32" -> dtype \in {"Long", "Ifd"}
      [] T = "u64" -> dtype \in {"BigLong", "BigIfd"}
      [] T = "i8" -> dtype = "SignedByte"
      [] T = "i16" -> dtype = "SignedShort"
      [] T = "i32" -> dtype = "SignedLong"
      [] T = "i64" -> dtype = "BigSignedLong"
      [] T = "f32" -> dtype = "Float"
      [] T = "f64" -> dtype = "Double"
      [] T = "(u32, u32)" -> dtype = "Rational"
      [] T = "(i32, i32)" -> dtype = "SignedRational"
      [] T = "Ratio<u32>" -> dtype = "Rational"
      [] T = "Ratio<i32>" -> dtype = "SignedRational"

\* the width of the scalar the reader method of T reads (read_u8 .. read_f64)
scalar_width(T) ==
    IF T \in {"u8", "i8"} THEN 1
    ELSE IF T \in {"u16", "i16"} THEN 2
    ELSE IF T \in {"u64", "i64", "f64"} THEN 8
    ELSE 4

\* the number of scalars that make one value of T (two for pairs and ratios)
scalars_per_value(T) ==
    IF T \in {"(u32, u32)", "(i32, i32)", "Ratio<u32>", "Ratio<i32>"} THEN 2 ELSE 1

\* the scalars of a run of bytes, each in the byte order bo
RECURSIVE split_scalars(_, _, _)
split_scalars(bo, b, w) ==
    IF Len(b) < w THEN <<>>
    ELSE <<from_bytes(bo, SubSeq(b, 1, w))>>
         \o split_scalars(bo, SubSeq(b, w + 1, Len(b)), w)

\* sealed::Decode::decode / decode_into after the seek to p: n values of T
read_values(T, p, n) ==
    LET r == read_exact(p, n * scalars_per_value(T) * scalar_width(T))
    IN  IF r.ok
        THEN [kind |-> "Ok",
              value |-> split_scalars(decoder.byteorder, r.bytes, scalar_width(T)),
              pos |-> r.pos]
        ELSE [kind |-> "Err", value |-> <<>>, pos |-> r.pos]

\* Entry::decode::<T>
decode(en, T) ==
    IF en.count /= U64(1)
    THEN [kind |-> "Err", value |-> <<>>, pos |-> pos, io |-> 0]
    ELSE IF ~is_dtype_good(T, en.dtype)
    THEN [kind |-> "Err", value |-> <<>>, pos |-> pos, io |-> 0]
    ELSE LET r == read_values(T, seek(en.offset), 1)
         IN  [kind |-> r.kind, value |-> r.value, pos |-> r.pos,
              io |-> 1 + scalars_per_value(T)]

\* Entry::decode_into::<T> with a buffer of len elements
decode_into(en, T, len) ==
    IF en.count /= U64(len)
    THEN [kind |-> "Err", value |-> <<>>, pos |-> pos, io |-> 0]
    ELSE IF ~is_dtype_good(T, en.dtype)
    THEN [kind |-> "Err", value |-> <<>>, pos |-> pos, io |-> 0]
    ELSE LET r == read_values(T, seek(en.offset), len)
         IN  [kind |-> r.kind, value |-> r.value, pos |-> r.pos, io |-> 2]

(***************************************************************************)
(* Input files: the TIFF wire format, written field by field.              *)
(***************************************************************************)
\* the n low bytes of a value in the byte order bo
to_bytes(bo, d, n) ==
    IF bo = "LittleEndian" THEN SubSeq(d, 1, n) ELSE Reverse(SubSeq(d, 1, n))

ByteOrders == {"LittleEndian", "BigEndian"}

Versions == {"Classic", "BigTiff"}

Signature(bo) == IF bo = "LittleEndian" THEN <<73, 73>> ELSE <<77, 77>>

VersionWord(version) == IF version = "Classic" THEN 42 ELSE 43

\* signature, version word, the BigTiff disambiguators, first-IFD offset
Header(bo, version, first) ==
    Signature(bo) \o to_bytes(bo, U64(VersionWord(version)), 2)
    \o (IF version = "BigTiff"
        THEN to_bytes(bo, U64(8), 2) \o to_bytes(bo, U64(0), 2)
        ELSE <<>>)
    \o to_bytes(bo, first, offset_width(version))

HeaderLen(version) == IF version = "Classic" THEN 8 ELSE 16

\* one directory entry: tag, datatype code, count, value slot
EntryBytes(bo, version, tag, code, count, slot) ==
    to_bytes(bo, U64(tag), 2) \o to_bytes(bo, U64(code), 2)
    \o to_bytes(bo, count, count_width(version))
    \o to_bytes(bo, slot, offset_width(version))

\* an ImageWidth entry: Short, count 1, value 1 inline
PlainEntry(bo, version) ==
    EntryBytes(bo, version, 256, 3, U64(1), U64(1))

RECURSIVE Repeat(_, _)
Repeat(b, n) == IF n = 0 THEN <<>> ELSE b \o Repeat(b, n - 1)

\* an IFD: entry count, n entries, next-IFD offset
Ifd(bo, version, count, n, next) ==
    to_bytes(bo, count, entries_count_width(version))
    \o Repeat(PlainEntry(bo, version), n)
    \o to_bytes(bo, next, offset_width(version))

IfdLen(version, n) ==
    entries_count_width(version) + n * entry_size(version) + offset_width(version)

AllOnes == [i \in 1..8 |-> 255]

\* 2^56: times an entry size it still fits a u64
Pow56 == <<0, 0, 0, 0, 0, 0, 0, 1>>

\* floor((2^64 - 1) / 20): times 20 it fits, plus the first entry offset it does not
Max20th == <<204, 204, 204, 204, 204, 204, 204, 12>>

\* entry counts written in the first IFD: small ones, and ones that overflow
WalkCounts == {U64(n) : n \in 0..2} \cup {AllOnes, Pow56, Max20th}

\* the entries physically present in the first IFD
Physical(count) == IF Fits(count) THEN ToNat(count) ELSE 1

\* files of two IFDs whose links (first, next1, next2) point anywhere:
\* to nothing, to either IFD (chains and cycles), or beyond the end
WalkFile(bo, version, first, count, next1, next2) ==
    Header(bo, version, first)
    \o Ifd(bo, version, count, Physical(count), next1)
    \o Ifd(bo, version, U64(1), 1, next2)

WalkLinks(version, count) ==
    {U64(0), U64(HeaderLen(version)),
     U64(HeaderLen(version) + IfdLen(version, Physical(count))), AllOnes}

WalkFiles ==
    UNION {UNION {
        {WalkFile(bo, version, first, count, next1, next2) :
            first \in WalkLinks(version, count),
            next1 \in WalkLinks(version, count),
            next2 \in WalkLinks(version, count)} :
        count \in WalkCounts} : bo \in ByteOrders, version \in Versions}

\* datatype codes written in the probed entry: the sixteen known, three unknown
EntryCodes == (0..14) \cup (16..18)

\* value counts written in the probed entry, on both sides of both budgets
EntryCounts == {U64(n) : n \in {0, 1, 2, 4, 5, 8, 9}} \cup {AllOnes}

\* sixteen bytes of out-of-line data
DataArea == [i \in 1..16 |-> i]

\* a file of one IFD of one entry, the probed entry, whose slot points to
\* the data area
EntryFile(bo, version, code, count) ==
    Header(bo, version, U64(HeaderLen(version)))
    \o to_bytes(bo, U64(1), entries_count_width(version))
    \o EntryBytes(bo, version, 257, code, count,
                  U64(HeaderLen(version) + IfdLen(version, 1)))
    \o to_bytes(bo, U64(0), offset_width(version))
    \o DataArea

EntryFiles ==
    {EntryFile(bo, version, code, count) :
        bo \in ByteOrders, version \in Versions,
        code \in EntryCodes, count \in EntryCounts}

\* headers: any signature, the three words that follow it written in either
\* byte order, then eight zero bytes; cut short at any of a few lengths
HeaderFile(sig, bo, word, w1, w2) ==
    sig \o to_bytes(bo, U64(word), 2) \o to_bytes(bo, U64(w1), 2)
    \o to_bytes(bo, U64(w2), 2) \o Zeros(8)

HeaderFiles ==
    {SubSeq(HeaderFile(sig, bo, word, w1, w2), 1, len) :
        sig \in {<<73, 73>>, <<77, 77>>, <<73, 77>>, <<0, 0>>},
        bo \in ByteOrders, word \in {42, 43, 44, 0},
        w1 \in {8, 4}, w2 \in {0, 1}, len \in {1, 3, 4, 6, 8, 16}}

(***************************************************************************)
(* Metadata: the builder filled by Metadata::from_decoder, and its build.  *)
(* An entry reaches push_entry as (tag, dtype, value), value being the run *)
(* of scalars the entry holds, two for each rational.  A u32 or u16 is a   *)
(* natural number; every number of this part stays below 2^31.             *)
(***************************************************************************)
\* Option<T>: None is the empty sequence, Some(v) is <<v>>
Some(v) == <<v>>

\* a mutant: the default replaces the value that is there
unwrap_or_lost(o, d) == d

\* Option::unwrap_or
unwrap_or(o, d) == IF o = None THEN d ELSE o[1]

\* the Option fields of MetadataBuilder
OptionFields ==
    {"image_width", "image_length", "interpretation", "rows_per_strip",
     "strip_offsets", "strip_byte_counts", "tile_width", "tile_length",
     "tile_offsets", "tile_byte_counts", "compression", "predictor",
     "subfile_type", "configuration", "xresolution", "yresolution",
     "resolution_unit", "samples_per_pixel", "bits_per_sample",
     "sample_format", "artist", "copyright", "host_computer", "description",
     "software", "datetime"}

\* MetadataBuilder::default(): every field None, no custom entry
MetadataBuilder_default ==
    [f \in OptionFields \cup {"entries"} |->
        IF f = "entries" THEN {} ELSE None]

\* the tags push_entry decodes with each arm of its decode! macro
AsU32Tags == {"IMAGE_WIDTH", "IMAGE_LENGTH", "ROWS_PER_STRIP", "TILE_WIDTH",
              "TILE_LENGTH"}
IntoU16Tags == {"PHOTOMETRIC_INTERPRETATION", "COMPRESSION", "PREDICTOR",
                "PLANAR_CONFIGURATION", "RESOLUTION_UNIT", "SAMPLES_PER_PIXEL"}
IntoU32Tags == {"NEW_SUBFILE_TYPE"}
IntoRatioTags == {"XRESOLUTION", "YRESOLUTION"}
AsVecU64Tags == {"STRIP_OFFSETS", "STRIP_BYTE_COUNTS", "TILE_OFFSETS",
                 "TILE_BYTE_COUNTS"}
IntoVecU16Tags == {"BITS_PER_SAMPLE", "SAMPLE_FORMAT"}
IntoStringTags == {"DATE_TIME", "ARTIST", "HOST_COMPUTER", "IMAGE_DESCRIPTION",
                   "COPYRIGHT", "SOFTWARE"}

\* the builder field each known tag is stored in
field(tag) ==
    CASE tag = "IMAGE_WIDTH" -> "image_width"
      [] tag = "IMAGE_LENGTH" -> "image_length"
      [] tag = "PHOTOMETRIC_INTERPRETATION" -> "interpretation"
      [] tag = "ROWS_PER_STRIP" -> "rows_per_strip"
      [] tag = "STRIP_OFFSETS" -> "strip_offsets"
      [] tag = "STRIP_BYTE_COUNTS" -> "strip_byte_counts"
      [] tag = "TILE_WIDTH" -> "tile_width"
      [] tag = "TILE_LENGTH" -> "tile_length"
      [] tag = "TILE_OFFSETS" -> "tile_offsets"
      [] tag = "TILE_BYTE_COUNTS" -> "tile_byte_counts"
      [] tag = "COMPRESSION" -> "compression"
      [] tag = "PREDICTOR" -> "predictor"
      [] tag = "NEW_SUBFILE_TYPE" -> "subfile_type"
      [] tag = "PLANAR_CONFIGURATION" -> "configuration"
      [] tag = "XRESOLUTION" -> "xresolution"
      [] tag = "YRESOLUTION" -> "yresolution"
      [] tag = "RESOLUTION_UNIT" -> "resolution_unit"
      [] tag = "DATE_TIME" -> "datetime"
      [] tag = "SAMPLES_PER_PIXEL" -> "samples_per_pixel"
      [] tag = "BITS_PER_SAMPLE" -> "bits_per_sample"
      [] tag = "SAMPLE_FORMAT" -> "sample_format"
      [] tag = "ARTIST" -> "artist"
      [] tag = "HOST_COMPUTER" -> "host_computer"
      [] tag = "IMAGE_DESCRIPTION" -> "description"
      [] tag = "COPYRIGHT" -> "copyright"
      [] tag = "SOFTWARE" -> "software"
      [] OTHER -> "entries"

\* SubfileType::from_u32: from_bits_truncate keeps the three known flags
SubfileType_from_u32(bits) == bits % 8

\* CStr::from_bytes_with_nul(..).to_str().to_owned(): the only NUL is the last
\* byte and the text is UTF-8.  The texts of this model are made of NUL, 'A'
\* and the lone continuation byte 0x80, for which UTF-8 means below 128.
into_String(bytes) ==
    IF /\ Len(bytes) > 0
       /\ bytes[Len(bytes)] = 0
       /\ \A i \in 1..(Len(bytes) - 1) : bytes[i] /= 0 /\ bytes[i] < 128
    THEN Some(SubSeq(bytes, 1, Len(bytes) - 1))
    ELSE None

\* Entry.count: the number of values the entry holds
entry_count(e) ==
    IF e.dtype \in {"Rational", "SignedRational"}
    THEN Len(e.value) \div 2
    ELSE Len(e.value)

\* an Error: its kind, its message, and the error it gives context to
Error(kind, msg) == [kind |-> kind, msg |-> msg, cause |-> None]

\* ErrorContext::with_context: a new ad-hoc error whose cause is err
with_context(err, context) ==
    [kind |-> "AdHoc", msg |-> context, cause |-> Some(err)]

\* the error of the String arm: the NUL of the text is missing or misplaced,
\* or the text is not UTF-8
into_String_error(bytes) ==
    IF \/ Len(bytes) = 0
       \/ bytes[Len(bytes)] /= 0
       \/ \E i \in 1..(Len(bytes) - 1) : bytes[i] = 0
    THEN Error("AdHoc", <<"Invalid string">>)
    ELSE Error("AdHoc", <<"Invalid UTF-8 stirng">>)

\* a mutant: the widening arm for u32 takes a Long only
admitted_unwidened(tag) ==
    CASE tag \in AsU32Tags -> {"Long"}
      [] tag \in IntoU16Tags -> {"Short"}
      [] tag \in IntoU32Tags -> {"Long"}
      [] tag \in IntoRatioTags -> {"Rational"}
      [] tag \in AsVecU64Tags -> {"Short", "Long", "Ifd", "BigLong", "BigIfd"}
      [] tag \in IntoVecU16Tags -> {"Short"}
      [] tag \in IntoStringTags -> {"Ascii"}

\* the datatypes the decode! arm of a known tag matches; any other is
\* Err(UnexpectedDType(dtype))
admitted(tag) ==
    CASE tag \in AsU32Tags -> {"Short", "Long"}
      [] tag \in IntoU16Tags -> {"Short"}
      [] tag \in IntoU32Tags -> {"Long"}
      [] tag \in IntoRatioTags -> {"Rational"}
      [] tag \in AsVecU64Tags -> {"Short", "Long", "Ifd", "BigLong", "BigIfd"}
      [] tag \in IntoVecU16Tags -> {"Short"}
      [] tag \in IntoStringTags -> {"Ascii"}

\* the arms of decode!: the decoded value (widened with `as u32`, `as u64`
\* where the arm says so), UnexpectedDType for a datatype the arm does not
\* match, or the error of Entry::decode for a count other than one
decode_macro(e) ==
    IF e.dtype \notin admitted(e.tag)
    THEN [kind |-> "Err", value |-> None,
          error |-> Error("UnexpectedDType", <<"Unexpected datatype", e.dtype>>)]
    ELSE IF /\ e.tag \in AsU32Tags \cup IntoU16Tags \cup IntoU32Tags
                         \cup IntoRatioTags
            /\ entry_count(e) /= 1
    THEN [kind |-> "Err", value |-> None,
          error |-> Error("AdHoc",
                          <<"Cannot decode entry with count not equal to 1">>)]
    ELSE IF e.tag \in IntoStringTags /\ into_String(e.value) = None
    THEN [kind |-> "Err", value |-> None, error |-> into_String_error(e.value)]
    ELSE [kind |-> "Ok", error |-> None,
          value |->
            CASE e.tag \in AsU32Tags \cup IntoU16Tags -> e.value[1]
              [] e.tag \in IntoU32Tags -> SubfileType_from_u32(e.value[1])
              [] e.tag \in IntoRatioTags -> <<e.value[1], e.value[2]>>
              [] e.tag \in AsVecU64Tags \cup IntoVecU16Tags -> e.value
              [] e.tag \in IntoStringTags -> into_String(e.value)[1]]

\* entry::Entry::from_decoder: a custom entry keeps its datatype and values
Entry_from_decoder(e) ==
    IF e.dtype = "Ascii"
    THEN IF into_String(e.value) = None
         THEN [kind |-> "Err", value |-> None,
               error |-> into_String_error(e.value)]
         ELSE [kind |-> "Ok", error |-> None,
               value |-> [tag |-> e.tag, dtype |-> e.dtype,
                          value |-> into_String(e.value)[1]]]
    ELSE [kind |-> "Ok", error |-> None,
          value |-> [tag |-> e.tag, dtype |-> e.dtype, value |-> e.value]]

\* MetadataBuilder::push_entry
push_entry(b, e) ==
    IF field(e.tag) = "entries"
    THEN LET v == Entry_from_decoder(e)
         IN  IF v.kind = "Err"
             THEN [kind |-> "Err", builder |-> b, error |-> v.error]
             ELSE [kind |-> "Ok", error |-> None,
                   builder |-> [b EXCEPT !.entries =
                                   {x \in @ : x.tag /= e.tag} \cup {v.value}]]
    ELSE LET v == decode_macro(e)
         IN  IF v.kind = "Err"
             THEN [kind |-> "Err", builder |-> b, error |-> v.error]
             ELSE [kind |-> "Ok", error |-> None,
                   builder |-> [b EXCEPT ![field(e.tag)] = Some(v.value)]]

\* a mutant: the quotient is rounded down
div_floor(a, b) == a \div b

\* u32::div_ceil
div_ceil(a, b) == IF a % b > 0 THEN a \div b + 1 ELSE a \div b

\* Layout::expected_chunks_count
expected_chunks_count(layout, image_width, image_length) ==
    IF layout.kind = "Strips"
    THEN div_ceil(image_length, layout.length)
    ELSE div_ceil(image_length, layout.length)
         * div_ceil(image_width, layout.width)

\* a mutant: the byte counts are paired with the offsets in reverse
zip_reversed(a, b) ==
    [i \in 1..(IF Len(a) < Len(b) THEN Len(a) ELSE Len(b)) |->
        <<a[i], b[Len(b) + 1 - i]>>]

\* Iterator::zip
zip(a, b) ==
    [i \in 1..(IF Len(a) < Len(b) THEN Len(a) ELSE Len(b)) |-> <<a[i], b[i]>>]

\* vec![x; n]
vec(x, n) == [i \in 1..n |-> x]

NoMetadata == [some |-> FALSE]

\* the seven layout fields as build matches on them
layout_of(b) ==
    IF /\ b.rows_per_strip /= None /\ b.strip_offsets /= None
       /\ b.strip_byte_counts /= None
       /\ b.tile_width = None /\ b.tile_length = None
       /\ b.tile_offsets = None /\ b.tile_byte_counts = None
    THEN IF b.rows_per_strip[1] = 0
         THEN [kind |-> "Err", error |-> "Rows per strip cannot be zero"]
         ELSE [kind |-> "Ok",
               layout |-> [kind |-> "Strips", length |-> b.rows_per_strip[1]],
               offsets |-> b.strip_offsets[1],
               byte_counts |-> b.strip_byte_counts[1]]
    ELSE IF /\ b.rows_per_strip = None /\ b.strip_offsets = None
            /\ b.strip_byte_counts = None
            /\ b.tile_width /= None /\ b.tile_length /= None
            /\ b.tile_offsets /= None /\ b.tile_byte_counts /= None
    THEN IF b.tile_width[1] = 0
         THEN [kind |-> "Err", error |-> "Tile width cannot be zero"]
         ELSE IF b.tile_length[1] = 0
         THEN [kind |-> "Err", error |-> "Tile length cannot be zero"]
         ELSE [kind |-> "Ok",
               layout |-> [kind |-> "Tiles", width |-> b.tile_width[1],
                           length |-> b.tile_length[1]],
               offsets |-> b.tile_offsets[1],
               byte_counts |-> b.tile_byte_counts[1]]
    ELSE [kind |-> "Err",
          error |-> "Image layout is not clearly defined by image tags"]

\* the checks of build that follow the layout match, and the value returned
build_chunks(b, l) ==
    LET image_width == b.image_width[1]
        image_length == b.image_length[1]
        actual_chunks_count == Len(l.offsets)
        samples_per_pixel == unwrap_or(b.samples_per_pixel, 1)
        bits_per_sample == unwrap_or(b.bits_per_sample, vec(1, samples_per_pixel))
        sample_format == unwrap_or(b.sample_format, vec(1, samples_per_pixel))
        resolution_unit == unwrap_or(b.resolution_unit, 2)
    IN  IF Len(l.offsets) /= Len(l.byte_counts)
        THEN [kind |-> "Err", metadata |-> NoMetadata,
              error |-> "Number of strip/tiles offsets does not match number of byte counts"]
        ELSE IF actual_chunks_count
                  < expected_chunks_count(l.layout, image_width, image_length)
        THEN [kind |-> "Err", metadata |-> NoMetadata,
              error |-> "Number of strip/tiles offsets does not match expected chunk counts"]
        ELSE IF Len(bits_per_sample) /= samples_per_pixel
        THEN [kind |-> "Err", metadata |-> NoMetadata,
              error |-> "Number of bits per sample does not match number of samples per pixel"]
        ELSE IF Len(sample_format) /= samples_per_pixel
        THEN [kind |-> "Err", metadata |-> NoMetadata,
              error |-> "Number of sample formats does not match number of samples per pixel"]
        ELSE IF (b.xresolution = None) /= (b.yresolution = None)
        THEN [kind |-> "Err", metadata |-> NoMetadata,
              error |-> "X and Y resolution must be both present or both absent"]
        ELSE [kind |-> "Ok", error |-> "",
              metadata |->
                [some |-> TRUE,
                 dimensions |-> <<image_width, image_length>>,
                 interpretation |-> b.interpretation[1],
                 layout |-> l.layout,
                 chunks |-> [i \in DOMAIN zip(l.offsets, l.byte_counts) |->
                               [offset |-> zip(l.offsets, l.byte_counts)[i][1],
                                byte_count |-> zip(l.offsets, l.byte_counts)[i][2]]],
                 compression |-> unwrap_or(b.compression, 1),
                 predictor |-> unwrap_or(b.predictor, 1),
                 subfile_type |-> unwrap_or(b.subfile_type, 0),
                 configuration |-> unwrap_or(b.configuration, 1),
                 resolution |->
                    IF b.xresolution = None THEN None
                    ELSE Some([pixels_per_unit |->
                                   <<b.xresolution[1], b.yresolution[1]>>,
                               unit |-> resolution_unit]),
                 artist |-> b.artist,
                 copyright |-> b.copyright,
                 host_computer |-> b.host_computer,
                 description |-> b.description,
                 software |-> b.software,
                 datetime |-> b.datetime,
                 samples |-> [i \in DOMAIN zip(bits_per_sample, sample_format) |->
                                [bits |-> zip(bits_per_sample, sample_format)[i][1],
                                 format |-> zip(bits_per_sample, sample_format)[i][2]]],
                 entries |-> b.entries]]

\* MetadataBuilder::build, without the chrono and jiff features
build(b) ==
    IF b.image_width = None
    THEN [kind |-> "Err", metadata |-> NoMetadata,
          error |-> "Missing required tag ImageWidth"]
    ELSE IF b.image_width[1] = 0
    THEN [kind |-> "Err", metadata |-> NoMetadata,
          error |-> "Image width cannot be zero"]
    ELSE IF b.image_length = None
    THEN [kind |-> "Err", metadata |-> NoMetadata,
          error |-> "Missing required tag ImageLength"]
    ELSE IF b.image_length[1] = 0
    THEN [kind |-> "Err", metadata |-> NoMetadata,
          error |-> "Image length cannot be zero"]
    ELSE IF b.interpretation = None
    THEN [kind |-> "Err", metadata |-> NoMetadata,
          error |-> "Missing required tag PhotometricInterpretation"]
    ELSE IF layout_of(b).kind = "Err"
    THEN [kind |-> "Err", metadata |-> NoMetadata, error |-> layout_of(b).error]
    ELSE build_chunks(b, layout_of(b))

(***************************************************************************)
(* The chunk table of a Metadata and its iterator.                         *)
(***************************************************************************)
\* a mutant: the strip length is taken for the chunk width too
chunk_size_square(m) == <<m.layout.length, m.layout.length>>

\* Metadata::chunk_size
chunk_size(m) ==
    IF m.layout.kind = "Strips"
    THEN <<m.dimensions[1], m.layout.length>>
    ELSE <<m.layout.width, m.layout.length>>

\* Metadata::chunks_count
chunks_count(m) == Len(m.chunks)

NoChunks == [some |-> FALSE]

\* Metadata::chunks: the enumerated slice iterator over elements start..end-1
\* of the chunk table, count being the index Enumerate gives to the next one
Metadata_chunks(m) ==
    [some |-> TRUE,
     image_size |-> m.dimensions,
     chunk_size |-> chunk_size(m),
     iter |-> [count |-> 0, start |-> 0, end |-> Len(m.chunks)],
     front |-> <<>>,
     back |-> <<>>]

\* ExactSizeIterator::len
Chunks_len(c) == c.iter.end - c.iter.start

\* chunk_length.min(image_length - origin_y) once the subtraction has wrapped
\* to 2^32 - d, d = origin_y - image_length; 2^32 is written 2 * Half + 2 to
\* keep every intermediate number below 2^31
min_wrapped(chunk_length, image_length, origin_y) ==
    LET Half == 2147483647
        d == origin_y - image_length
    IN  IF (d - Half) - 2 <= Half - chunk_length
        THEN chunk_length
        ELSE (Half - d) + Half + 2

\* Chunks::build_nth_chunk.  image_width - origin_x cannot underflow, the
\* column being below ceil(image_width / chunk_width); image_length - origin_y
\* underflows for an index at or past the expected count: a panic where
\* overflow checks are compiled in, a wrapped difference where they are not
build_nth_chunk(c, index, loc) ==
    LET image_width == c.image_size[1]
        image_length == c.image_size[2]
        chunk_width == c.chunk_size[1]
        chunk_length == c.chunk_size[2]
        chunks_along_width == div_ceil(image_width, chunk_width)
        index_width == index % chunks_along_width
        index_length == index \div chunks_along_width
        origin_x == index_width * chunk_width
        origin_y == index_length * chunk_length
        size_x == IF chunk_width < image_width - origin_x
                  THEN chunk_width ELSE image_width - origin_x
        size_y == IF origin_y > image_length
                  THEN min_wrapped(chunk_length, image_length, origin_y)
                  ELSE IF chunk_length < image_length - origin_y
                  THEN chunk_length ELSE image_length - origin_y
    IN  IF origin_y > image_length /\ overflow_checks
        THEN [kind |-> "Panic", chunk |-> None]
        ELSE [kind |-> "Some",
              chunk |-> [origin |-> <<origin_x, origin_y>>,
                         size |-> <<size_x, size_y>>,
                         offset |-> loc.offset,
                         byte_count |-> loc.byte_count]]

\* Iterator::next for Chunks, over the chunk table of m
Chunks_next(c, m) ==
    IF c.iter.start = c.iter.end
    THEN [kind |-> "None", chunk |-> None, chunks |-> c]
    ELSE LET r == build_nth_chunk(c, c.iter.count, m.chunks[c.iter.start + 1])
         IN  [kind |-> r.kind, chunk |-> r.chunk,
              chunks |-> [c EXCEPT !.iter.count = @ + 1, !.iter.start = @ + 1,
                                   !.front = IF r.kind = "Some"
                                             THEN Append(@, r.chunk) ELSE @]]

\* DoubleEndedIterator::next_back for Chunks
Chunks_next_back(c, m) ==
    IF c.iter.start = c.iter.end
    THEN [kind |-> "None", chunk |-> None, chunks |-> c]
    ELSE LET len == c.iter.end - 1 - c.iter.start
             r == build_nth_chunk(c, c.iter.count + len, m.chunks[c.iter.end])
         IN  [kind |-> r.kind, chunk |-> r.chunk,
              chunks |-> [c EXCEPT !.iter.end = @ - 1,
                                   !.back = IF r.kind = "Some"
                                            THEN Append(@, r.chunk) ELSE @]]

(***************************************************************************)
(* The structural decoder as a state machine.                              *)
(***************************************************************************)
\* the outcome of a call: its kind (Ok, Some, None, Err, Panic), the number
\* of seeks and reads it made on the source, and what it was called with
Outcome(op, kind, io) ==
    [op |-> op, kind |-> kind, io |-> io, T |-> "", len |-> 0, value |-> <<>>,
     loc |-> None, word |-> None]

\* no directory has been handed to Metadata::from_decoder
MetadataIdle ==
    /\ pending = <<>>
    /\ builder = MetadataBuilder_default
    /\ metadata = NoMetadata
    /\ chunks = NoChunks
    /\ overflow_checks = FALSE

\* no pure function is under test
PureIdle == operands = <<>>

\* no byte-stream reader has been constructed
NoReader == [some |-> FALSE]

StreamIdle ==
    /\ reader = NoReader
    /\ output = <<>>

\* no Decoder has been constructed
DecoderIdle ==
    /\ file = <<>>
    /\ pos = U64(0)
    /\ decoder = NoDecoder
    /\ directories = NoDirectories
    /\ directory = NoDirectory
    /\ entries = NoEntries
    /\ entry = NoEntry
    /\ yielded = <<>>

InitOn(files) ==
    /\ file \in files
    /\ pos = U64(0)
    /\ decoder = NoDecoder
    /\ directories = NoDirectories
    /\ directory = NoDirectory
    /\ entries = NoEntries
    /\ entry = NoEntry
    /\ result = [op |-> "init", kind |-> "Ok", io |-> 0, T |-> "", len |-> 0,
                 value |-> <<>>, loc |-> None, word |-> None]
    /\ yielded = <<>>
    /\ MetadataIdle
    /\ StreamIdle
    /\ PureIdle

Running == result.kind /= "Panic"

\* Decoder::new
New ==
    /\ result.op = "init"
    /\ LET r == Decoder_new(pos)
       IN  /\ decoder' = r.decoder
           /\ pos' = r.pos
           /\ result' = Outcome("new", r.kind, r.io)
    /\ UNCHANGED <<file, directories, directory, entries, entry, yielded>>
    /\ UNCHANGED <<metadataVars, streamVars, pureVars>>

\* Decoder::directories: a new iterator; the handles of the previous one are gone
Directories ==
    /\ Running
    /\ decoder.some
    /\ directories' = [some |-> TRUE,
                       next_offset_loc |-> U64(first_offset_loc(decoder.version))]
    /\ directory' = NoDirectory
    /\ entries' = NoEntries
    /\ entry' = NoEntry
    /\ yielded' = <<>>
    /\ result' = Outcome("directories", "Ok", 0)
    /\ UNCHANGED <<file, pos, decoder>>
    /\ UNCHANGED <<metadataVars, streamVars, pureVars>>

\* Directories::next_directory
NextDirectory ==
    /\ Running
    /\ directories.some
    /\ Len(yielded) < MaxYielded
    /\ LET r == next_directory(directories.next_offset_loc)
       IN  /\ directories' = [directories EXCEPT
                                  !.next_offset_loc = r.next_offset_loc]
           /\ directory' = r.directory
           /\ yielded' = IF r.kind = "Some"
                         THEN Append(yielded, r.directory)
                         ELSE yielded
           /\ pos' = r.pos
           /\ result' = [Outcome("next_directory", r.kind, r.io) EXCEPT
                             !.loc = directories.next_offset_loc,
                             !.word = r.word]
    /\ entries' = NoEntries
    /\ entry' = NoEntry
    /\ UNCHANGED <<file, decoder>>
    /\ UNCHANGED <<metadataVars, streamVars, pureVars>>

\* Directory::entries, which consumes the Directory handle
Entries ==
    /\ Running
    /\ directory.some
    /\ LET r == Directory_entries(directory)
       IN  /\ entries' = r.entries
           /\ result' = Outcome("entries", r.kind, 0)
    /\ directory' = NoDirectory
    /\ entry' = NoEntry
    /\ UNCHANGED <<file, pos, decoder, directories, yielded>>
    /\ UNCHANGED <<metadataVars, streamVars, pureVars>>

\* Entries::next_entry
NextEntry ==
    /\ Running
    /\ entries.some
    /\ LET r == next_entry(entries)
       IN  /\ entries' = r.entries
           /\ entry' = r.entry
           /\ pos' = r.pos
           /\ result' = [Outcome("next_entry", r.kind, r.io) EXCEPT
                             !.value = IF result.op = "next_entry"
                                          /\ result.kind = "Err"
                                       THEN <<"retry">> ELSE <<>>]
    /\ UNCHANGED <<file, decoder, directories, directory, yielded>>
    /\ UNCHANGED <<metadataVars, streamVars, pureVars>>

\* Entry::decode::<T>, for the value types Ts the caller asks for
Decode(Ts) ==
    /\ Running
    /\ entry.some
    /\ entry.decodes < MaxDecodes
    /\ \E T \in Ts :
          LET r == decode(entry, T)
          IN  /\ pos' = r.pos
              /\ result' = [Outcome("decode", r.kind, r.io) EXCEPT
                                !.T = T, !.value = r.value]
    /\ entry' = [entry EXCEPT !.decodes = entry.decodes + 1]
    /\ UNCHANGED <<file, decoder, directories, directory, entries, yielded>>
    /\ UNCHANGED <<metadataVars, streamVars, pureVars>>

\* Entry::decode_into::<T>
DecodeInto(Ts) ==
    /\ Running
    /\ entry.some
    /\ entry.decodes < MaxDecodes
    /\ \E T \in Ts, len \in 0..MaxBuffer :
          LET r == decode_into(entry, T, len)
          IN  /\ pos' = r.pos
              /\ result' = [Outcome("decode_into", r.kind, r.io) EXCEPT
                                !.T = T, !.len = len, !.value = r.value]
    /\ entry' = [entry EXCEPT !.decodes = entry.decodes + 1]
    /\ UNCHANGED <<file, decoder, directories, directory, entries, yielded>>
    /\ UNCHANGED <<metadataVars, streamVars, pureVars>>

\* the value types asked for while walking: one the plain entries accept,
\* one they refuse
WalkTypes == {"u16", "Ratio<u32>"}

Init == InitOn(WalkFiles \cup HeaderFiles)

Next ==
    \/ New
    \/ Directories
    \/ NextDirectory
    \/ Entries
    \/ NextEntry
    \/ Decode(WalkTypes)
    \/ DecodeInto(WalkTypes)

\* the walk over files whose links and entry counts vary
Spec == Init /\ [][Next]_vars

InitEntry == InitOn(EntryFiles)

NextEntryDecode ==
    \/ New
    \/ Directories
    \/ NextDirectory
    \/ Entries
    \/ NextEntry
    \/ Decode(DecodeTypes)
    \/ DecodeInto(DecodeTypes)

\* a single entry of every datatype and count, decoded as every value type
SpecEntry == InitEntry /\ [][NextEntryDecode]_vars

(***************************************************************************)
(* Header parse.                                                           *)
(***************************************************************************)
\* the 16-bit word at bytes i, i+1 of the file, in the order the signature names
HeaderWord(i) ==
    IF SubSeq(file, 1, 2) = <<73, 73>>
    THEN file[i] + 256 * file[i + 1]
    ELSE 256 * file[i] + file[i + 1]

SignatureKnown == SubSeq(file, 1, 2) \in {<<73, 73>>, <<77, 77>>}

\* the stream holds every byte the header parse asks for: four, or eight when
\* the signature is known and the version word is 43
LongEnough ==
    /\ Len(file) >= 4
    /\ (SignatureKnown /\ HeaderWord(3) = 43) => Len(file) >= 8

HeaderAccepted ==
    /\ SignatureKnown
    /\ HeaderWord(3) \in {42, 43}
    /\ HeaderWord(3) = 43 => (HeaderWord(5) = 8 /\ HeaderWord(7) = 0)

\* C1: on a stream long enough to hold the header, Decoder::new succeeds
\* exactly when the signature is II or MM, the version word read in that byte
\* order is 42 or 43, and for 43 the next two words are 8 and 0; on success
\* the byte order and the version are the ones the header names; otherwise
\* an error is returned and there is no decoder.
C1_HeaderParse ==
    (result.op = "new" /\ LongEnough) =>
        /\ (result.kind = "Ok") <=> HeaderAccepted
        /\ result.kind = "Ok" =>
            /\ decoder.some
            /\ decoder.byteorder = (IF SubSeq(file, 1, 2) = <<73, 73>>
                                    THEN "LittleEndian" ELSE "BigEndian")
            /\ decoder.version = (IF HeaderWord(3) = 42
                                  THEN "Classic" ELSE "BigTiff")
        /\ result.kind /= "Ok" => (result.kind = "Err" /\ ~decoder.some)

\* a big-endian BigTiff header was accepted
C1_Witness ==
    /\ result.op = "new"
    /\ result.kind = "Ok"
    /\ LongEnough
    /\ decoder.byteorder = "BigEndian"
    /\ decoder.version = "BigTiff"

(***************************************************************************)
(* Directory walk.                                                         *)
(***************************************************************************)
\* C2: next_directory returns None exactly when the offset word it read is
\* zero or it had already ended; a non-zero word leads to a yielded
\* directory or to an error; once ended, the iterator stays ended and a
\* call on it neither seeks nor reads.
C2_NoneExactlyOnZero ==
    result.op = "next_directory" =>
        /\ (result.kind = "None") <=>
               (result.loc = None \/ result.word = U64(0))
        /\ (result.word /= None /\ result.word /= U64(0)) =>
               result.kind \in {"Some", "Err"}
        /\ result.kind = "None" => directories.next_offset_loc = None
        /\ result.loc = None => result.io = 0

\* the offsets carried by the handles yielded so far
YieldedOffsets == [i \in 1..Len(yielded) |-> yielded[i].offset]

NoRepeat(s) == \A i, j \in 1..Len(s) : i /= j => s[i] /= s[j]

\* the n-byte number at file position at (a small number), read from the
\* bytes of the file in the byte order of the header; None past the end
NumberAt(at, n) ==
    IF at + n > Len(file) THEN None
    ELSE (IF decoder.byteorder = "LittleEndian"
          THEN SubSeq(file, at + 1, at + n)
          ELSE Reverse(SubSeq(file, at + 1, at + n))) \o Zeros(8 - n)

\* the chain of IFD offsets stored in the file: from the offset word at
\* position at, through the next-IFD word of each directory (at O + 2 + 12 N
\* in a Classic file, at O + 8 + 20 N in a BigTiff file), for at most n
\* links; it ends at a zero word or where the file cannot be read
RECURSIVE LinkChain(_, _)
LinkChain(at, n) ==
    LET classic == decoder.version = "Classic"
        offset  == NumberAt(at, IF classic THEN 4 ELSE 8)
        count   == NumberAt(ToNat(offset), IF classic THEN 2 ELSE 8)
    IN  IF n = 0 \/ offset = None \/ offset = U64(0) THEN <<>>
        ELSE IF ~Fits(offset) \/ count = None \/ ~Fits(count)
        THEN <<offset>>
        ELSE <<offset>>
             \o LinkChain(ToNat(offset) + (IF classic THEN 2 ELSE 8)
                          + (IF classic THEN 12 ELSE 20) * ToNat(count), n - 1)

\* the links of the file, as far as the iterator is followed
FileChain == LinkChain(IF decoder.version = "Classic" THEN 4 ELSE 8, MaxYielded)

\* C3 as stated: no two handles yielded by one iterator carry the same
\* offset, whatever the file
C3_NeverRevisits == NoRepeat(YieldedOffsets)

\* C3, amended: on a file whose chain of links repeats no offset, no two
\* yielded handles carry the same offset
C3_NoRevisitOnAcyclic ==
    (directories.some /\ NoRepeat(FileChain)) => NoRepeat(YieldedOffsets)

\* both directories of an acyclic file were yielded and the walk ended
C3_Witness ==
    /\ Len(yielded) = 2
    /\ directories.some
    /\ NoRepeat(FileChain)
    /\ result.op = "next_directory"
    /\ result.kind = "None"

\* the first-IFD offset stored in the header: the 32-bit number at byte 4 of
\* a Classic file, the 64-bit number at byte 8 of a BigTiff file
FirstIfdOffset ==
    IF decoder.version = "Classic" THEN NumberAt(4, 4) ELSE NumberAt(8, 8)

\* C4: the first yielded directory is the one the header points to, and each
\* later one is the one its predecessor's next_offset names, whatever decode
\* calls moved the shared reader in between.
C4_LinkOrder ==
    /\ Len(yielded) >= 1 => yielded[1].offset = FirstIfdOffset
    /\ \A k \in 1..(Len(yielded) - 1) :
           yielded[k + 1].offset = yielded[k].next_offset

\* two directories were yielded, the second linking back to the first
C4_Witness ==
    /\ Len(yielded) = 2
    /\ yielded[1].offset /= yielded[2].offset
    /\ yielded[2].next_offset = yielded[1].offset

(***************************************************************************)
(* Entry walk.                                                             *)
(***************************************************************************)
\* the width of tag, datatype and count: where the value slot of an entry starts
SlotStart == IF decoder.version = "Classic" THEN 8 ELSE 12

\* the inline-value budget of the version
InlineBudget == IF decoder.version = "Classic" THEN 4 ELSE 8

\* the number stored in the value slot of the entry at file position at,
\* read from the bytes of the file with the offset width of the version
SlotNumber(at) ==
    LET n == IF decoder.version = "Classic" THEN 4 ELSE 8
        b == SubSeq(file, at + SlotStart + 1, at + SlotStart + n)
    IN  (IF decoder.byteorder = "LittleEndian" THEN b ELSE Reverse(b))
        \o Zeros(8 - n)

\* dtype.size * count <= budget, the count being any 64-bit number
FitsInline(en) ==
    /\ Fits(en.count)
    /\ size(en.dtype) * ToNat(en.count) <= InlineBudget

\* C5: an entry whose data fits the inline budget reports the position of
\* its own value slot, and the slot is not read as an offset; any other
\* entry reports the number stored in the slot.
C5_InlineOrOffset ==
    entry.some =>
        IF FitsInline(entry)
        THEN entry.offset = U64(ToNat(entry.slot) + SlotStart)
        ELSE entry.offset = SlotNumber(ToNat(entry.slot))

\* a BigTiff entry of eight data bytes was yielded with its value inline
C5_Witness ==
    /\ entry.some
    /\ result.op = "next_entry"
    /\ decoder.version = "BigTiff"
    /\ entry.dtype = "Short"
    /\ entry.count = U64(4)
    /\ entry.offset = U64(ToNat(entry.slot) + 12)

\* C6: the k-th entry of the directory at O is read at O + 2 + 12k (Classic)
\* or O + 8 + 20k (BigTiff); exactly N entries are yielded, and after them
\* every call returns None; a call fails only where the entry at that place
\* is cut short by the end of the file or names no datatype.
C6_EntriesInFileOrder ==
    /\ entry.some =>
           /\ entry.slot =
                  U64(ToNat(entries.origin)
                      + (IF decoder.version = "Classic" THEN 2 ELSE 8)
                      + (IF decoder.version = "Classic" THEN 12 ELSE 20)
                        * entry.index)
           /\ Fits(entries.total) => entry.index < ToNat(entries.total)
    /\ (entries.some /\ result.op = "next_entry" /\ result.kind = "None") =>
           U64(entries.index) = entries.total
    /\ entries.some =>
           ((entries.entries_count = U64(0))
                <=> (U64(entries.index) = entries.total))
    /\ (entries.some /\ result.op = "next_entry" /\ result.kind = "Err"
            /\ Fits(entries.origin)) =>
           LET classic == decoder.version = "Classic"
               at == ToNat(entries.origin) + (IF classic THEN 2 ELSE 8)
                     + (IF classic THEN 12 ELSE 20) * entries.index
               code == NumberAt(at + 2, 2)
           IN  \/ code = None
               \/ ToNat(code) \notin (1..13) \cup (16..18)
               \/ NumberAt(at + 4, IF classic THEN 8 ELSE 16) = None

\* the two entries of a directory were yielded and the next call returned None
C6_Witness ==
    /\ entries.some
    /\ entries.total = U64(2)
    /\ entries.index = 2
    /\ result.op = "next_entry"
    /\ result.kind = "None"

(***************************************************************************)
(* Single-entry decode.                                                    *)
(***************************************************************************)
\* the datatypes each value type accepts
DecodeTable ==
    {<<"u8", "Byte">>, <<"u8", "Ascii">>, <<"u8", "Undefined">>,
     <<"u16", "Short">>, <<"u32", "Long">>, <<"u32", "Ifd">>,
     <<"u64", "BigLong">>, <<"u64", "BigIfd">>, <<"i8", "SignedByte">>,
     <<"i16", "SignedShort">>, <<"i32", "SignedLong">>,
     <<"i64", "BigSignedLong">>, <<"f32", "Float">>, <<"f64", "Double">>,
     <<"(u32, u32)", "Rational">>, <<"Ratio<u32>", "Rational">>,
     <<"(i32, i32)", "SignedRational">>, <<"Ratio<i32>", "SignedRational">>}

\* a step that is a decode or decode_into call on the live entry
DecodeStep == result'.op \in {"decode", "decode_into"}

\* the call of the step is one the entry admits
Admitted ==
    /\ <<result'.T, entry.dtype>> \in DecodeTable
    /\ entry.count = (IF result'.op = "decode" THEN U64(1) ELSE U64(result'.len))

\* C7: decode returns a value only for count 1 and an accepted datatype,
\* decode_into only for a count equal to the buffer length and an accepted
\* datatype; every other call is an error made before any seek or read,
\* which leaves the reader where it was.
C7_DecodeChecks ==
    [][DecodeStep =>
          /\ result'.kind = "Ok" => Admitted
          /\ ~Admitted => (result'.kind = "Err" /\ result'.io = 0 /\ pos' = pos)
      ]_vars

\* two signed rationals were decoded into a buffer of two
C7_Witness ==
    /\ result.op = "decode_into"
    /\ result.kind = "Ok"
    /\ result.T = "Ratio<i32>"
    /\ result.len = 2
    /\ Len(result.value) = 4

\* a decode call was refused for its datatype while the reader stood elsewhere
C7_WitnessRefused ==
    /\ result.op = "decode"
    /\ result.kind = "Err"
    /\ result.io = 0
    /\ entry.count = U64(1)
    /\ pos /= entry.offset

(***************************************************************************)
(* Input directories: the decoded entries handed to Metadata::from_decoder.*)
(***************************************************************************)
MaxDim == 3           \* largest image width, image length and chunk side
MaxChunks == 4        \* longest offsets or byte-counts table
MaxSamples == 2       \* largest samples-per-pixel

\* the tags of a directory, in the ascending order of their codes
TagOrder ==
    <<"NEW_SUBFILE_TYPE", "IMAGE_WIDTH", "IMAGE_LENGTH", "BITS_PER_SAMPLE",
      "COMPRESSION", "PHOTOMETRIC_INTERPRETATION", "IMAGE_DESCRIPTION",
      "STRIP_OFFSETS", "ORIENTATION", "SAMPLES_PER_PIXEL", "ROWS_PER_STRIP",
      "STRIP_BYTE_COUNTS", "XRESOLUTION", "YRESOLUTION",
      "PLANAR_CONFIGURATION", "RESOLUTION_UNIT", "PREDICTOR", "TILE_WIDTH",
      "TILE_LENGTH", "TILE_OFFSETS", "TILE_BYTE_COUNTS", "SAMPLE_FORMAT">>

Tags == {TagOrder[i] : i \in DOMAIN TagOrder}

\* an entry body of datatype dtype holding the scalars value
Body(dtype, value) == Some([dtype |-> dtype, value |-> value])

\* a Long entry holding the single number n
Long(n) == Body("Long", <<n>>)

\* a Short entry holding the single number n
Short(n) == Body("Short", <<n>>)

\* an offsets table of n entries, all different
Offsets(n) == Body("Long", [i \in 1..n |-> 8 * i])

\* a byte-counts table of n entries, all different
ByteCounts(n) == Body("Long", [i \in 1..n |-> 100 + i])

\* a Short table of n entries
Shorts(n) == Body("Short", [i \in 1..n |-> i])

\* a Rational entry holding the single ratio n / 1
Rational(n) == Body("Rational", <<n, 1>>)

\* the entries of a directory that gives tag the body t[tag], if any
RECURSIVE DirectoryFrom(_, _)
DirectoryFrom(t, i) ==
    IF i > Len(TagOrder) THEN <<>>
    ELSE (IF t[TagOrder[i]] = None THEN <<>>
          ELSE <<[tag |-> TagOrder[i], dtype |-> t[TagOrder[i]][1].dtype,
                  value |-> t[TagOrder[i]][1].value]>>)
         \o DirectoryFrom(t, i + 1)

\* the assignment that gives the tags of ts the bodies of bs, in order
With(t, ts, bs) ==
    [tag \in Tags |->
        IF \E i \in DOMAIN ts : ts[i] = tag
        THEN bs[CHOOSE i \in DOMAIN ts : ts[i] = tag]
        ELSE t[tag]]

\* a one-strip image of MaxDim x MaxDim pixels
BaseImage ==
    With([tag \in Tags |-> None],
         <<"IMAGE_WIDTH", "IMAGE_LENGTH", "PHOTOMETRIC_INTERPRETATION",
           "ROWS_PER_STRIP", "STRIP_OFFSETS", "STRIP_BYTE_COUNTS">>,
         <<Long(MaxDim), Long(MaxDim), Short(2), Long(MaxDim), Offsets(1),
           ByteCounts(1)>>)

\* BaseImage without its layout tags
BareImage ==
    With(BaseImage, <<"ROWS_PER_STRIP", "STRIP_OFFSETS", "STRIP_BYTE_COUNTS">>,
         <<None, None, None>>)

\* present or absent
Maybe(body) == {None, body}

\* the required tags: absent, zero or positive
RequiredImages ==
    {With(BaseImage,
          <<"IMAGE_WIDTH", "IMAGE_LENGTH", "PHOTOMETRIC_INTERPRETATION">>,
          <<w, h, p>>) :
        w \in {None} \cup {Short(n) : n \in 0..MaxDim},
        h \in {None} \cup {Long(n) : n \in 0..MaxDim},
        p \in Maybe(Short(2))}

\* every subset of the seven layout tags
MixedImages ==
    {With(BareImage,
          <<"ROWS_PER_STRIP", "STRIP_OFFSETS", "STRIP_BYTE_COUNTS",
            "TILE_WIDTH", "TILE_LENGTH", "TILE_OFFSETS", "TILE_BYTE_COUNTS">>,
          <<r, so, sb, tw, tl, to, tb>>) :
        r \in Maybe(Long(MaxDim)), so \in Maybe(Offsets(1)),
        sb \in Maybe(ByteCounts(1)), tw \in Maybe(Long(MaxDim)),
        tl \in Maybe(Short(MaxDim)), to \in Maybe(Offsets(1)),
        tb \in Maybe(ByteCounts(1))}

\* the lengths of an offsets table and of its byte-counts table: equal, or
\* one apart
TableLengths ==
    {<<n, m>> \in (0..MaxChunks) \X (0..MaxChunks) : m - n \in {-1, 0, 1}}

\* strips of every height over images of every size
StripImages ==
    {With(BareImage,
          <<"IMAGE_WIDTH", "IMAGE_LENGTH", "ROWS_PER_STRIP", "STRIP_OFFSETS",
            "STRIP_BYTE_COUNTS">>,
          <<Long(w), Long(h), Long(r), Offsets(nm[1]), ByteCounts(nm[2])>>) :
        w \in {1, MaxDim}, h \in 1..MaxDim, r \in 0..(MaxDim + 1),
        nm \in TableLengths}

\* tiles of every size over images of every size
TileImages ==
    {With(BareImage,
          <<"IMAGE_WIDTH", "IMAGE_LENGTH", "TILE_WIDTH", "TILE_LENGTH",
            "TILE_OFFSETS", "TILE_BYTE_COUNTS">>,
          <<Long(w), Long(h), Long(tw), Long(tl), Offsets(nm[1]),
            ByteCounts(nm[2])>>) :
        w \in 1..MaxDim, h \in 1..MaxDim, tw \in 0..MaxDim, tl \in 0..MaxDim,
        nm \in TableLengths}

\* samples and resolution: present or absent, of every length
SampleImages ==
    {With(BaseImage,
          <<"SAMPLES_PER_PIXEL", "BITS_PER_SAMPLE", "SAMPLE_FORMAT",
            "XRESOLUTION", "YRESOLUTION", "RESOLUTION_UNIT">>,
          <<spp, bps, sf, x, y, u>>) :
        spp \in {None} \cup {Short(n) : n \in 0..MaxSamples},
        bps \in {None} \cup {Shorts(n) : n \in 0..MaxSamples},
        sf \in {None} \cup {Shorts(n) : n \in 0..MaxSamples},
        x \in Maybe(Rational(72)), y \in Maybe(Rational(96)),
        u \in Maybe(Short(3))}

\* the optional tags that have a default
OptionalImages ==
    {With(BaseImage,
          <<"COMPRESSION", "PREDICTOR", "NEW_SUBFILE_TYPE",
            "PLANAR_CONFIGURATION", "XRESOLUTION", "YRESOLUTION">>,
          <<c, p, s, cfg, x, x>>) :
        c \in Maybe(Short(5)), p \in Maybe(Short(2)), s \in Maybe(Long(9)),
        cfg \in Maybe(Short(2)), x \in Maybe(Rational(72))}

\* the bodies a damaged entry may have: every count of a few datatypes, and
\* texts with and without their final NUL
OddBodies ==
    {Body(d, [i \in 1..n |-> 1]) :
        d \in {"Short", "Long", "Ifd", "BigLong", "BigIfd", "SignedLong"},
        n \in 0..2}
    \cup {Body("Rational", [i \in 1..(2 * n) |-> i]) : n \in 0..2}
    \cup {Body("Ascii", t) :
            t \in {<<>>, <<0>>, <<65, 0>>, <<65>>, <<0, 0>>, <<128, 0>>}}

\* BaseImage with one tag, known or custom, given an odd body
OddImages ==
    {With(BaseImage, <<tag>>, <<b>>) : tag \in Tags, b \in OddBodies}

InputDirectories ==
    {DirectoryFrom(t, 1) :
        t \in RequiredImages \cup MixedImages \cup StripImages \cup TileImages
              \cup SampleImages \cup OptionalImages \cup OddImages}

(***************************************************************************)
(* Metadata::from_decoder and the chunk iterator as a state machine.       *)
(***************************************************************************)
InitMeta ==
    /\ file = <<>>
    /\ pos = U64(0)
    /\ decoder = NoDecoder
    /\ directories = NoDirectories
    /\ directory = NoDirectory
    /\ entries = NoEntries
    /\ entry = NoEntry
    /\ yielded = <<>>
    /\ result = Outcome("init", "Ok", 0)
    /\ pending \in InputDirectories
    /\ builder = MetadataBuilder_default
    /\ metadata = NoMetadata
    /\ chunks = NoChunks
    /\ overflow_checks \in BOOLEAN
    /\ StreamIdle
    /\ PureIdle

\* one turn of the loop of Metadata::from_decoder: MetadataBuilder::push_entry
\* on the next entry, whose error ends from_decoder
PushEntry ==
    /\ result.op \in {"init", "push_entry"}
    /\ result.kind = "Ok"
    /\ pending /= <<>>
    /\ LET r == push_entry(builder, Head(pending))
       IN  /\ builder' = r.builder
           /\ result' =
                 [Outcome("push_entry", r.kind, 0) EXCEPT
                    !.value =
                       [entry |-> Head(pending),
                        error |-> IF r.kind = "Err"
                                  THEN Some(with_context(r.error,
                                            <<"Invalid", Head(pending).tag>>))
                                  ELSE None]]
    /\ pending' = Tail(pending)
    /\ UNCHANGED <<metadata, chunks, overflow_checks>>
    /\ UNCHANGED <<decoderVars, streamVars, pureVars>>

\* the end of Metadata::from_decoder: MetadataBuilder::build; builder keeps
\* the fields build was called on
Build ==
    /\ result.op \in {"init", "push_entry"}
    /\ result.kind = "Ok"
    /\ pending = <<>>
    /\ LET r == build(builder)
       IN  /\ metadata' = r.metadata
           /\ result' = [Outcome("build", r.kind, 0) EXCEPT !.value = r.error]
    /\ UNCHANGED <<pending, builder, chunks, overflow_checks>>
    /\ UNCHANGED <<decoderVars, streamVars, pureVars>>

\* Metadata::chunks: a new iterator
MetadataChunks ==
    /\ Running
    /\ metadata.some
    /\ chunks' = Metadata_chunks(metadata)
    /\ result' = Outcome("chunks", "Ok", 0)
    /\ UNCHANGED <<pending, builder, metadata, overflow_checks>>
    /\ UNCHANGED <<decoderVars, streamVars, pureVars>>

\* Chunks::next
ChunksNext ==
    /\ Running
    /\ chunks.some
    /\ LET r == Chunks_next(chunks, metadata)
       IN  /\ chunks' = r.chunks
           /\ result' = [Outcome("next", r.kind, 0) EXCEPT !.value = r.chunk]
    /\ UNCHANGED <<pending, builder, metadata, overflow_checks>>
    /\ UNCHANGED <<decoderVars, streamVars, pureVars>>

\* Chunks::next_back
ChunksNextBack ==
    /\ Running
    /\ chunks.some
    /\ LET r == Chunks_next_back(chunks, metadata)
       IN  /\ chunks' = r.chunks
           /\ result' = [Outcome("next_back", r.kind, 0) EXCEPT
                             !.value = r.chunk]
    /\ UNCHANGED <<pending, builder, metadata, overflow_checks>>
    /\ UNCHANGED <<decoderVars, streamVars, pureVars>>

NextMeta ==
    \/ PushEntry
    \/ Build
    \/ MetadataChunks
    \/ ChunksNext
    \/ ChunksNextBack

\* directories of every shape, built and iterated from both ends
SpecMeta == InitMeta /\ [][NextMeta]_vars

(***************************************************************************)
(* Build: when it fails.                                                   *)
(***************************************************************************)
\* the tag of field f was pushed
Pushed(f) == builder[f] /= <<>>

\* the value pushed for field f
Given(f) == builder[f][1]

\* the least q with q * b >= a
Ceil(a, b) == CHOOSE q \in 0..a : q * b >= a /\ \A p \in 0..(q - 1) : p * b < a

StripFields == {"rows_per_strip", "strip_offsets", "strip_byte_counts"}

TileFields == {"tile_width", "tile_length", "tile_offsets", "tile_byte_counts"}

LayoutGiven == {f \in StripFields \cup TileFields : Pushed(f)}

RequiredAbsent ==
    \E f \in {"image_width", "image_length", "interpretation"} : ~Pushed(f)

ZeroGiven ==
    \E f \in {"image_width", "image_length", "rows_per_strip", "tile_width",
              "tile_length"} : Pushed(f) /\ Given(f) = 0

LayoutUnclear == LayoutGiven /= StripFields /\ LayoutGiven /= TileFields

OffsetsGiven ==
    IF LayoutGiven = StripFields
    THEN Given("strip_offsets") ELSE Given("tile_offsets")

ByteCountsGiven ==
    IF LayoutGiven = StripFields
    THEN Given("strip_byte_counts") ELSE Given("tile_byte_counts")

ExpectedGiven ==
    IF LayoutGiven = StripFields
    THEN Ceil(Given("image_length"), Given("rows_per_strip"))
    ELSE Ceil(Given("image_length"), Given("tile_length"))
         * Ceil(Given("image_width"), Given("tile_width"))

TablesDiffer == Len(OffsetsGiven) /= Len(ByteCountsGiven)

TooFewOffsets == Len(OffsetsGiven) < ExpectedGiven

SamplesGiven ==
    IF Pushed("samples_per_pixel") THEN Given("samples_per_pixel") ELSE 1

SamplesDiffer ==
    \E f \in {"bits_per_sample", "sample_format"} :
        Pushed(f) /\ Len(Given(f)) /= SamplesGiven

OneResolution == Pushed("xresolution") /= Pushed("yresolution")

BuildMustFail ==
    \/ RequiredAbsent
    \/ ZeroGiven
    \/ LayoutUnclear
    \/ TablesDiffer
    \/ TooFewOffsets
    \/ SamplesDiffer
    \/ OneResolution

\* C8: MetadataBuilder::build returns an error exactly when a required tag is
\* absent, a dimension or a chunk side is zero, the layout tags are neither
\* the three strip tags alone nor the four tile tags alone, the offsets and
\* byte counts differ in length, the offsets are fewer than the expected
\* chunk count, bits-per-sample or sample-format differs in length from
\* samples-per-pixel, or exactly one resolution is given; otherwise it
\* returns Ok.
C8_BuildErrors ==
    result.op = "build" =>
        /\ result.kind \in {"Ok", "Err"}
        /\ result.kind = "Err" <=> BuildMustFail

\* build refused a directory whose only fault is too short an offsets table
C8_Witness ==
    /\ result.op = "build"
    /\ result.kind = "Err"
    /\ ~RequiredAbsent /\ ~ZeroGiven /\ ~LayoutUnclear /\ ~TablesDiffer
    /\ ~SamplesDiffer /\ ~OneResolution
    /\ TooFewOffsets
    /\ Len(OffsetsGiven) > 0

(***************************************************************************)
(* Build: what it returns.                                                 *)
(***************************************************************************)
\* C9: every Metadata returned by build has positive dimensions and chunk
\* sides, as many chunks as the offsets tag and the byte-counts tag have
\* entries, paired index by index and no fewer than the expected count, as
\* many samples as samples-per-pixel, and a resolution exactly when both X
\* and Y resolution were given.
C9_MetadataInvariants ==
    metadata.some =>
        /\ metadata.dimensions[1] > 0
        /\ metadata.dimensions[2] > 0
        /\ metadata.layout.length > 0
        /\ metadata.layout.kind = "Tiles" => metadata.layout.width > 0
        /\ chunks_count(metadata) = Len(OffsetsGiven)
        /\ chunks_count(metadata) = Len(ByteCountsGiven)
        /\ \A i \in 1..chunks_count(metadata) :
              /\ metadata.chunks[i].offset = OffsetsGiven[i]
              /\ metadata.chunks[i].byte_count = ByteCountsGiven[i]
        /\ chunks_count(metadata) >=
              (IF metadata.layout.kind = "Strips"
               THEN Ceil(metadata.dimensions[2], Given("rows_per_strip"))
               ELSE Ceil(metadata.dimensions[2], Given("tile_length"))
                    * Ceil(metadata.dimensions[1], Given("tile_width")))
        /\ Len(metadata.samples) = SamplesGiven
        /\ metadata.resolution /= <<>>
              <=> (Pushed("xresolution") /\ Pushed("yresolution"))

\* build returned a tiled Metadata with more chunks than the image needs
C9_Witness ==
    /\ metadata.some
    /\ metadata.layout.kind = "Tiles"
    /\ chunks_count(metadata) > ExpectedGiven
    /\ ExpectedGiven > 1

(***************************************************************************)
(* The chunk iterator.                                                     *)
(***************************************************************************)
\* the chunk a fresh iterator yields at its (i+1)-th call of next
FromFront(i) ==
    build_nth_chunk(Metadata_chunks(metadata), i, metadata.chunks[i + 1]).chunk

\* C10: for any interleaving of next and next_back, every call yields a chunk
\* or None; the front calls have yielded the chunks of index 0, 1, .. and the
\* back calls those of index n-1, n-2, .., each with its offset and byte
\* count of the table and the origin and size it has from the front; len()
\* is the number of chunks not yet yielded; None is returned only once
\* every chunk has been yielded.
C10_ChunksBothEnds ==
    chunks.some =>
        LET n == chunks_count(metadata)
        IN  /\ result.op \in {"next", "next_back"}
                  => result.kind \in {"Some", "None"}
            /\ \A k \in 1..Len(chunks.front) :
                  /\ chunks.front[k].offset = metadata.chunks[k].offset
                  /\ chunks.front[k].byte_count = metadata.chunks[k].byte_count
                  /\ chunks.front[k] = FromFront(k - 1)
            /\ \A k \in 1..Len(chunks.back) :
                  /\ chunks.back[k].offset = metadata.chunks[n + 1 - k].offset
                  /\ chunks.back[k].byte_count
                        = metadata.chunks[n + 1 - k].byte_count
                  /\ chunks.back[k] = FromFront(n - k)
            /\ Chunks_len(chunks) = n - Len(chunks.front) - Len(chunks.back)
            /\ (result.op \in {"next", "next_back"} /\ result.kind = "None")
                  => Len(chunks.front) + Len(chunks.back) = n

(***************************************************************************)
(* The geometry of a chunk.                                                *)
(***************************************************************************)
\* the chunk width and length the pushed tags give
ChunkSide ==
    IF LayoutGiven = StripFields
    THEN <<Given("image_width"), Given("rows_per_strip")>>
    ELSE <<Given("tile_width"), Given("tile_length")>>

\* the smaller of two numbers
Least(a, b) == IF a < b THEN a ELSE b

\* origin and size of the chunk of index i by the formulas of the layout
Geometry(i) ==
    LET w == Given("image_width")
        h == Given("image_length")
        cw == ChunkSide[1]
        cl == ChunkSide[2]
        stride == Ceil(w, cw)
        col == i % stride
        row == i \div stride
    IN  [origin |-> <<col * cw, row * cl>>,
         size |-> <<Least(cw, w - col * cw), Least(cl, h - row * cl)>>]

\* C11: the chunk of index i, for every i below the expected chunk count,
\* has origin (col * cw, row * cl) and size (min(cw, w - origin.x),
\* min(cl, h - origin.y)), with stride = ceil(w / cw), col = i mod stride and
\* row = i div stride, (cw, cl) being (w, rows_per_strip) for strips and
\* (tile_width, tile_length) for tiles.
C11_ChunkGeometry ==
    chunks.some =>
        LET n == chunks_count(metadata)
        IN  /\ chunks.chunk_size = ChunkSide
            /\ \A k \in 1..Len(chunks.front) :
                  k - 1 < ExpectedGiven =>
                      /\ chunks.front[k].origin = Geometry(k - 1).origin
                      /\ chunks.front[k].size = Geometry(k - 1).size
            /\ \A k \in 1..Len(chunks.back) :
                  n - k < ExpectedGiven =>
                      /\ chunks.back[k].origin = Geometry(n - k).origin
                      /\ chunks.back[k].size = Geometry(n - k).size

\* the last tile of a 3 x 3 image cut in 2 x 2 tiles was yielded from the
\* back, clipped to one pixel
C11_Witness ==
    /\ chunks.some
    /\ metadata.layout.kind = "Tiles"
    /\ metadata.dimensions = <<3, 3>>
    /\ chunks.chunk_size = <<2, 2>>
    /\ chunks_count(metadata) = 4
    /\ Len(chunks.back) > 0
    /\ chunks.back[1].origin = <<2, 2>>
    /\ chunks.back[1].size = <<1, 1>>

(***************************************************************************)
(* Build: defaults.                                                        *)
(***************************************************************************)
\* the value of field f in the builder, or d where the tag was never pushed
GivenOr(f, d) == IF Pushed(f) THEN Given(f) ELSE d

\* C12: in every Metadata build returns, an optional tag that was never
\* pushed has its default (compression 1, predictor 1, subfile type 0,
\* configuration 1, samples-per-pixel 1, bits-per-sample and sample-format
\* samples-per-pixel copies of 1, resolution unit 2 where X and Y resolution
\* are given) and a tag that was pushed has the value the builder holds.
C12_Defaults ==
    metadata.some =>
        /\ metadata.dimensions = <<Given("image_width"), Given("image_length")>>
        /\ metadata.interpretation = Given("interpretation")
        /\ metadata.compression = GivenOr("compression", 1)
        /\ metadata.predictor = GivenOr("predictor", 1)
        /\ metadata.subfile_type = GivenOr("subfile_type", 0)
        /\ metadata.configuration = GivenOr("configuration", 1)
        /\ Len(metadata.samples) = GivenOr("samples_per_pixel", 1)
        /\ \A i \in 1..Len(metadata.samples) :
              /\ metadata.samples[i].bits
                    = (IF Pushed("bits_per_sample")
                       THEN Given("bits_per_sample")[i] ELSE 1)
              /\ metadata.samples[i].format
                    = (IF Pushed("sample_format")
                       THEN Given("sample_format")[i] ELSE 1)
        /\ metadata.resolution /= <<>> =>
              /\ metadata.resolution[1].unit = GivenOr("resolution_unit", 2)
              /\ metadata.resolution[1].pixels_per_unit
                    = <<Given("xresolution"), Given("yresolution")>>

\* build returned a Metadata with a resolution in the default unit
C12_Witness ==
    /\ metadata.some
    /\ ~Pushed("resolution_unit")
    /\ metadata.resolution /= <<>>
    /\ metadata.resolution[1].unit = 2

\* build returned a Metadata whose two samples are all defaults
C12_WitnessSamples ==
    /\ metadata.some
    /\ Pushed("samples_per_pixel")
    /\ ~Pushed("bits_per_sample")
    /\ ~Pushed("sample_format")
    /\ Len(metadata.samples) = 2

\* ---------------------------------------------------------------------
\* C13: the datatypes from_decoder admits for the dimension and table tags

\* the tags read as one u32, and the tags read as a table of u64
DimensionTags ==
    {"IMAGE_WIDTH", "IMAGE_LENGTH", "ROWS_PER_STRIP", "TILE_WIDTH",
     "TILE_LENGTH"}

TableTags ==
    {"STRIP_OFFSETS", "STRIP_BYTE_COUNTS", "TILE_OFFSETS", "TILE_BYTE_COUNTS"}

\* the wire datatypes of a well-known tag
WireTypes(tag) ==
    IF tag \in DimensionTags THEN {"Short", "Long"}
    ELSE IF tag \in TableTags
    THEN {"Short", "Long", "Ifd", "BigLong", "BigIfd"}
    ELSE IF tag = "NEW_SUBFILE_TYPE" THEN {"Long"}
    ELSE IF tag \in {"XRESOLUTION", "YRESOLUTION"} THEN {"Rational"}
    ELSE IF tag \in {"SOFTWARE", "DATE_TIME", "ARTIST", "HOST_COMPUTER",
                     "COPYRIGHT", "IMAGE_DESCRIPTION"}
    THEN {"Ascii"}
    ELSE {"Short"}

\* C13: a dimension tag (IMAGE_WIDTH, IMAGE_LENGTH, ROWS_PER_STRIP,
\* TILE_WIDTH, TILE_LENGTH) given as one SHORT or one LONG is accepted and
\* the builder holds the same number; an offsets or byte-counts table given
\* as SHORT, LONG, IFD, LONG8 or IFD8 is accepted and the builder holds the
\* same numbers in the same order; any other datatype on a well-known tag
\* ends from_decoder with the error "Invalid <tag>" whose cause is
\* "Unexpected datatype", no further entry is pushed and no Metadata is
\* produced.
C13_AdmittedDTypes ==
    result.op = "push_entry" =>
        LET e == result.value.entry
            err == result.value.error
        IN  /\ (e.tag \in DimensionTags /\ e.dtype \in {"Short", "Long"}
                    /\ Len(e.value) = 1)
                 => /\ result.kind = "Ok"
                    /\ builder[field(e.tag)] = <<e.value[1]>>
            /\ (e.tag \in TableTags
                    /\ e.dtype \in {"Short", "Long", "Ifd", "BigLong", "BigIfd"})
                 => /\ result.kind = "Ok"
                    /\ builder[field(e.tag)] = <<e.value>>
            /\ (field(e.tag) /= "entries" /\ e.dtype \notin WireTypes(e.tag))
                 => /\ result.kind = "Err"
                    /\ err /= None
                    /\ err[1].kind = "AdHoc"
                    /\ err[1].msg = <<"Invalid", e.tag>>
                    /\ err[1].cause /= None
                    /\ err[1].cause[1].kind = "UnexpectedDType"
                    /\ err[1].cause[1].msg = <<"Unexpected datatype", e.dtype>>
                    /\ err[1].cause[1].cause = None
                    /\ ~ metadata.some
                    /\ ~ ENABLED PushEntry
                    /\ ~ ENABLED Build
            /\ (field(e.tag) /= "entries" /\ result.kind = "Err"
                    /\ err[1].cause[1].kind = "UnexpectedDType")
                 => e.dtype \notin WireTypes(e.tag)

\* an IMAGE_LENGTH given as a LONG8 has ended from_decoder
C13_Witness ==
    /\ result.op = "push_entry"
    /\ result.kind = "Err"
    /\ result.value.entry.tag = "IMAGE_LENGTH"
    /\ result.value.entry.dtype = "BigLong"
    /\ result.value.error[1].cause[1].kind = "UnexpectedDType"

\* a table of two SHORT offsets is held as the same two numbers
C13_WitnessWidened ==
    /\ result.op = "push_entry"
    /\ result.kind = "Ok"
    /\ result.value.entry.tag \in TableTags
    /\ result.value.entry.dtype = "Short"
    /\ Len(result.value.entry.value) = 2
    /\ builder[field(result.value.entry.tag)] = <<result.value.entry.value>>


(***************************************************************************)
(* compression/packbits.rs: PackBitsReader over an inner reader            *)
(***************************************************************************)
\* bounds: the bytes of a packed stream, the size of a read buffer, and the
\* most bytes the inner reader hands out in one read
MaxPacked == 4
MaxBuf == 3
MaxGrain == 2

\* the inner reader: a cursor over data that has handed out pos bytes and
\* hands out at most grain bytes in one read (std::io::Read allows a short
\* read; Ok(0) for a non-empty buffer only at the end of data)
Cursor(data, grain) == [data |-> data, pos |-> 0, grain |-> grain]

remaining(c) == Len(c.data) - c.pos

\* std::io::Read::read on the inner reader: the number of bytes it returns
\* for a buffer of n bytes
inner_read(c, n) ==
    IF n <= c.grain
    THEN (IF n <= remaining(c) THEN n ELSE remaining(c))
    ELSE (IF c.grain <= remaining(c) THEN c.grain ELSE remaining(c))

\* the next n bytes of the inner reader, and the reader after them
taken(c, n) == SubSeq(c.data, c.pos + 1, c.pos + n)

advance(c, n) == [c EXCEPT !.pos = @ + n]

\* ReadBytesExt::read_i8: a byte as a signed number
as_i8(b) == IF b >= 128 THEN b - 256 ELSE b

\* enum ReaderState
ReaderState(tag, count, data) == [tag |-> tag, count |-> count, data |-> data]

Start == ReaderState("Start", 0, 0)

\* PackBitsReader::new
PackBitsReader_new(inner) ==
    [some |-> TRUE, kind |-> "PackBits", inner |-> inner, state |-> Start]

\* a mutant: the run is one byte shorter
repeat_count_short(first_byte) == (0 - first_byte) % 256

\* the length of a repeat run: 1 + (-first_byte) as u8
repeat_count(first_byte) == (1 + ((0 - first_byte) % 256)) % 256

\* the length of a literal run: 1 + first_byte as u8
literal_count(first_byte) == (1 + first_byte) % 256

\* what a read returns: Ok(n) with the first n bytes of the buffer, an
\* I/O error, or nothing at all when its loop never ends
Return(kind, r, buf) ==
    [kind |-> kind, n |-> IF kind = "Ok" THEN Len(buf) ELSE 0,
     bytes |-> IF kind = "Ok" THEN buf ELSE <<>>, reader |-> r]

\* a mutant: the end of the source at a header is an error
start_eof_err(r, buf) == Return("Err", r, buf)

\* read_i8 failed with UnexpectedEof in state Start: Ok(start)
start_eof(r, buf) == Return("Ok", r, buf)

\* the state after count - used bytes of a run are left
run_left(tag, count, used, data) ==
    IF (count - used) % 256 = 0
    THEN Start
    ELSE ReaderState(tag, (count - used) % 256, data)

\* one turn of the loop of read: the reader and the filled part of the
\* buffer after it, and whether the turn returned
turn(r, len, buf) ==
    LET room == len - Len(buf)
    IN  CASE r.state.tag = "Start" ->
               IF remaining(r.inner) = 0
               THEN [ret |-> Some(start_eof(r, buf)), reader |-> r, buf |-> buf]
               ELSE LET first_byte == as_i8(taken(r.inner, 1)[1])
                        r1 == [r EXCEPT !.inner = advance(@, 1)]
                    IN  IF first_byte = -128
                        THEN [ret |-> None, reader |-> r1, buf |-> buf]
                        ELSE IF first_byte < 0
                        THEN IF remaining(r1.inner) = 0
                             THEN [ret |-> Some(Return("Err", r1, buf)),
                                   reader |-> r1, buf |-> buf]
                             ELSE [ret |-> None, buf |-> buf,
                                   reader |->
                                     [r1 EXCEPT
                                        !.inner = advance(@, 1),
                                        !.state = ReaderState("Repeat",
                                            repeat_count(first_byte),
                                            taken(r1.inner, 1)[1])]]
                        ELSE [ret |-> None, buf |-> buf,
                              reader |->
                                [r1 EXCEPT !.state = ReaderState("Literal",
                                               literal_count(first_byte), 0)]]
          [] r.state.tag = "Repeat" ->
               LET count == r.state.count
                   filled == IF count <= room THEN count ELSE room
               IN  [ret |-> None,
                    buf |-> buf \o [k \in 1..filled |-> r.state.data],
                    reader |-> [r EXCEPT !.state =
                                   run_left("Repeat", count, filled,
                                            r.state.data)]]
          [] r.state.tag = "Literal" ->
               LET count == r.state.count
                   asked == IF count <= room THEN count ELSE room
                   copied == inner_read(r.inner, asked)
               IN  [ret |-> None,
                    buf |-> buf \o taken(r.inner, copied),
                    reader |-> [r EXCEPT
                                   !.inner = advance(@, copied),
                                   !.state = run_left("Literal", count,
                                                      copied, 0)]]

\* impl Read for PackBitsReader: read into a buffer of len bytes, buf being
\* the part filled so far (start = Len(buf)).  A turn that neither returns
\* nor breaks and leaves the reader and start as they were repeats for ever.
RECURSIVE PackBitsReader_read(_, _, _)
PackBitsReader_read(r, len, buf) ==
    LET t == turn(r, len, buf)
    IN  IF t.ret /= None THEN t.ret[1]
        ELSE IF Len(t.buf) >= len THEN Return("Ok", t.reader, t.buf)
        ELSE IF t.reader = r /\ t.buf = buf THEN Return("Diverges", r, buf)
        ELSE PackBitsReader_read(t.reader, len, t.buf)

(***************************************************************************)
(* compression.rs: DecompressReader                                        *)
(***************************************************************************)
\* Compression::NONE, PACKBITS, DEFLATE, LEGACY_DEFLATE
NONE == 1
\* Compression::LZW, which DecompressReader does not support (as a mutant:
\* the id taken for PackBits)
LZW == 5

PACKBITS == 32773
DEFLATE == 8
LEGACY_DEFLATE == 32946

\* DecompressReader::new, in a build with or without the deflate feature
DecompressReader_new(inner, compression, deflate) ==
    IF compression = NONE
    THEN [kind |-> "Ok", error |-> None,
          reader |-> [some |-> TRUE, kind |-> "None", inner |-> inner,
                      state |-> Start]]
    ELSE IF compression = PACKBITS
    THEN [kind |-> "Ok", error |-> None, reader |-> PackBitsReader_new(inner)]
    ELSE IF deflate /\ compression \in {DEFLATE, LEGACY_DEFLATE}
    THEN [kind |-> "Ok", error |-> None,
          reader |-> [some |-> TRUE, kind |-> "Deflate", inner |-> inner,
                      state |-> Start]]
    ELSE [kind |-> "Err", reader |-> NoReader,
          error |-> Some(Error("AdHoc",
                         <<"Unsupported compression algorithm", compression>>))]

\* impl Read for DecompressReader: the results a read into len bytes can have
DecompressReader_read(r, len) ==
    CASE r.kind = "None" ->
           LET n == inner_read(r.inner, len)
           IN  {Return("Ok", [r EXCEPT !.inner = advance(@, n)],
                       taken(r.inner, n))}
      [] r.kind = "PackBits" -> {PackBitsReader_read(r, len, <<>>)}
      [] r.kind = "Deflate" ->
           \* flate2's ZlibDecoder: any count or an error, the bytes not
           \* being computed here
           {[Return(kind, r, <<>>) EXCEPT !.n = n] :
               kind \in {"Ok", "Err"}, n \in 0..len}

(***************************************************************************)
(* The byte streams handed to the readers                                  *)
(***************************************************************************)
\* the bytes of the bounded streams: the headers 1 (a literal of two bytes),
\* -128 (no-op) and -2 (a run of three), which are data too
PackedBytes == {1, 128, 254}

RECURSIVE StreamsOf(_, _)
StreamsOf(bytes, n) ==
    IF n = 0 THEN {<<>>}
    ELSE LET shorter == StreamsOf(bytes, n - 1)
         IN  shorter \cup {Append(t, b) : t \in {x \in shorter : Len(x) = n - 1},
                                         b \in bytes}

\* the stream of tests::decode_packbits (Apple technical note TN1023)
TN1023 ==
    <<254, 170, 2, 128, 0, 42, 253, 170, 3, 128, 0, 42, 34, 247, 170>>

PackedStreams == StreamsOf(PackedBytes, MaxPacked) \cup {TN1023}

\* the compression ids handed to DecompressReader::new
CompressionIds == {0, 1, 2, 5, 7, 8, 32773, 32946, 65535}

(***************************************************************************)
(* The readers as a state machine: a source is wrapped once, then read     *)
(* with buffers of any size                                                *)
(***************************************************************************)
InitStream ==
    /\ DecoderIdle
    /\ MetadataIdle
    /\ PureIdle
    /\ result = Outcome("init", "Ok", 0)
    /\ output = <<>>
    /\ \E data \in PackedStreams, grain \in 1..MaxGrain :
          reader = [source |-> Cursor(data, grain), deflate |-> FALSE,
                    wrapped |-> FALSE, r |-> NoReader]

\* a read that has returned (a read whose loop never ends has not)
Returned == result.kind /= "Diverges"

\* PackBitsReader::new
PackBitsNew ==
    /\ result.op = "init"
    /\ reader' = [reader EXCEPT !.r = PackBitsReader_new(reader.source)]
    /\ result' = Outcome("PackBitsReader::new", "Ok", 0)
    /\ UNCHANGED <<output, decoderVars, metadataVars, pureVars>>

\* <PackBitsReader as Read>::read
PackBitsRead ==
    /\ reader.r.some
    /\ ~ reader.wrapped
    /\ Returned
    /\ \E len \in 0..MaxBuf :
          LET ret == PackBitsReader_read(reader.r, len, <<>>)
          IN  /\ reader' = [reader EXCEPT !.r = ret.reader]
              /\ output' = output \o ret.bytes
              /\ result' = [Outcome("read", ret.kind, 0) EXCEPT
                              !.len = len,
                              !.value = [n |-> ret.n, bytes |-> ret.bytes]]
    /\ UNCHANGED <<decoderVars, metadataVars, pureVars>>

\* DecompressReader::new, in a build with or without the deflate feature
DecompressNew ==
    /\ result.op = "init"
    /\ \E compression \in CompressionIds, deflate \in BOOLEAN :
          LET made == DecompressReader_new(reader.source, compression, deflate)
          IN  /\ reader' = [reader EXCEPT !.r = made.reader, !.wrapped = TRUE,
                                         !.deflate = deflate]
              /\ result' = [Outcome("DecompressReader::new", made.kind, 0)
                              EXCEPT !.word = compression,
                                     !.value = made.error]
    /\ UNCHANGED <<output, decoderVars, metadataVars, pureVars>>

\* <DecompressReader as Read>::read
DecompressRead ==
    /\ reader.r.some
    /\ reader.wrapped
    /\ Returned
    /\ \E len \in 0..MaxBuf :
          \E ret \in DecompressReader_read(reader.r, len) :
              /\ reader' = [reader EXCEPT !.r = ret.reader]
              /\ output' = output \o ret.bytes
              /\ result' = [Outcome("read", ret.kind, 0) EXCEPT
                              !.len = len,
                              !.value = [n |-> ret.n, bytes |-> ret.bytes]]
    /\ UNCHANGED <<decoderVars, metadataVars, pureVars>>

NextStream ==
    \/ PackBitsNew
    \/ PackBitsRead
    \/ DecompressNew
    \/ DecompressRead

SpecStream == InitStream /\ [][NextStream]_vars

\* ---------------------------------------------------------------------
\* C14..C16: PackBits against its reference expansion

\* a header byte as the signed number n of the PackBits format
RunHeader(b) == IF b < 128 THEN b ELSE b - 256

\* the reference expansion of data from its byte p on, up to the first run
\* the data does not hold whole (of a literal run cut short: the bytes that
\* are there)
RECURSIVE Runs(_, _)
Runs(data, p) ==
    IF p >= Len(data) THEN <<>>
    ELSE LET n == RunHeader(data[p + 1])
         IN  IF n = -128 THEN Runs(data, p + 1)
             ELSE IF n < 0
             THEN IF p + 2 > Len(data) THEN <<>>
                  ELSE [k \in 1..(1 - n) |-> data[p + 2]] \o Runs(data, p + 2)
             ELSE IF p + n + 2 > Len(data)
                  THEN SubSeq(data, p + 2, Len(data))
                  ELSE SubSeq(data, p + 2, p + n + 2) \o Runs(data, p + n + 2)

\* every run of data from its byte p on is whole
RECURSIVE Complete(_, _)
Complete(data, p) ==
    IF p >= Len(data) THEN TRUE
    ELSE LET n == RunHeader(data[p + 1])
         IN  IF n = -128 THEN Complete(data, p + 1)
             ELSE IF n < 0
             THEN p + 2 <= Len(data) /\ Complete(data, p + 2)
             ELSE p + n + 2 <= Len(data) /\ Complete(data, p + n + 2)

\* the bytes a PackBits reader has yet to deliver, its open run first
Ahead(r) ==
    LET data == r.inner.data
        p == r.inner.pos
    IN  CASE r.state.tag = "Start" -> Runs(data, p)
          [] r.state.tag = "Repeat" ->
               [k \in 1..r.state.count |-> r.state.data] \o Runs(data, p)
          [] r.state.tag = "Literal" ->
               IF p + r.state.count > Len(data)
               THEN SubSeq(data, p + 1, Len(data))
               ELSE SubSeq(data, p + 1, p + r.state.count)
                       \o Runs(data, p + r.state.count)

\* the open run and every run after it are whole
WholeAhead(r) ==
    CASE r.state.tag = "Literal" ->
           /\ r.inner.pos + r.state.count <= Len(r.inner.data)
           /\ Complete(r.inner.data, r.inner.pos + r.state.count)
      [] OTHER -> Complete(r.inner.data, r.inner.pos)

IsPrefix(a, b) == Len(a) <= Len(b) /\ a = SubSeq(b, 1, Len(a))

PackBitsMade == reader.r.some /\ reader.r.kind = "PackBits"

\* the source is exhausted at a run boundary
AtEnd(r) == r.state.tag = "Start" /\ remaining(r.inner) = 0

\* a read of a PackBits reader, direct or through DecompressReader
PackBitsStep == PackBitsMade /\ (PackBitsRead \/ DecompressRead)

\* the bytes of tests::decode_packbits unpacked
TN1023Unpacked ==
    <<170, 170, 170, 128, 0, 42, 170, 170, 170, 170, 128, 0, 42, 34,
      170, 170, 170, 170, 170, 170, 170, 170, 170, 170>>

\* C14: over a well-formed packed stream, whatever the sizes of the read
\* buffers and of the inner reader's reads, every read returns Ok(n) with
\* the next n bytes of the reference expansion, n being the buffer size or
\* what is left of the expansion: the bytes returned so far are always a
\* prefix of the reference expansion, also when a read ends inside a run.
C14_SplitIndependent ==
    (PackBitsMade /\ Complete(reader.source.data, 0)) =>
        LET whole == Runs(reader.source.data, 0)
        IN  /\ IsPrefix(output, whole)
            /\ result.op = "read" =>
                 /\ result.kind = "Ok"
                 /\ result.value.n = Len(result.value.bytes)
                 /\ result.value.n =
                      Least(result.len,
                            Len(whole) - (Len(output) - result.value.n))

\* a read of the stream of TN1023 has ended inside a run
C14_Witness ==
    /\ PackBitsMade
    /\ reader.source.data = TN1023
    /\ result.op = "read"
    /\ result.value.n = 3
    /\ reader.r.state.tag /= "Start"
    /\ Len(output) > 10

\* the stream of TN1023 has been read to its end
C14_WitnessTN1023 ==
    /\ PackBitsMade
    /\ reader.source.data = TN1023
    /\ output = TN1023Unpacked
    /\ result.op = "read"
    /\ result.len > 0
    /\ result.value.n = 0

\* C15: a read that runs out of source at a run boundary returns Ok(k), k
\* being the bytes it produced before (all that was ahead), and leaves the
\* reader at that boundary; a read that starts there returns Ok(0) and
\* changes nothing, so every later read returns Ok(0) as well.
C15_CleanEnd ==
    [][ /\ (PackBitsStep /\ AtEnd(reader.r))
             => /\ result'.kind = "Ok"
                /\ result'.value.n = 0
                /\ reader' = reader
                /\ output' = output
        /\ (PackBitsStep /\ WholeAhead(reader.r)
                /\ Len(Ahead(reader.r)) < result'.len)
             => /\ result'.kind = "Ok"
                /\ result'.value.n = Len(Ahead(reader.r))
                /\ result'.value.bytes = Ahead(reader.r)
                /\ AtEnd(reader'.r) ]_vars

\* a read has produced two bytes and then met the end of the source
C15_Witness ==
    /\ PackBitsMade
    /\ result.op = "read"
    /\ result.kind = "Ok"
    /\ result.value.n = 2
    /\ result.len = 3
    /\ AtEnd(reader.r)

\* C16: a read with a non-empty buffer that gets to a run the source does
\* not hold whole (the byte to repeat is missing, or fewer literal bytes
\* follow than the header announced) returns an I/O error.
C16_EofInsideRunIsError ==
    [][ (PackBitsStep /\ result'.len > 0 /\ ~ WholeAhead(reader.r)
            /\ Len(Ahead(reader.r)) < result'.len)
          => result'.kind = "Err" ]_vars

\* ---------------------------------------------------------------------
\* C17: the compression ids DecompressReader::new accepts

\* C17: DecompressReader::new returns Ok for the ids 1 (the reader is
\* passed through) and 32773 (PackBits) and, in a build with the deflate
\* feature, for 8 and 32946 (both the same zlib reader), and an
\* "Unsupported compression" error for every other id; with id 1 a read
\* returns what the inner reader returns: the count and the bytes of one
\* read of the inner reader.
C17_Dispatch ==
    /\ result.op = "DecompressReader::new" =>
         /\ result.word = 1 => (result.kind = "Ok" /\ reader.r.kind = "None")
         /\ result.word = 32773 =>
              (result.kind = "Ok" /\ reader.r.kind = "PackBits")
         /\ (result.word \in {8, 32946} /\ reader.deflate) =>
              (result.kind = "Ok" /\ reader.r.kind = "Deflate")
         /\ (result.word \notin {1, 32773}
                /\ ~ (result.word \in {8, 32946} /\ reader.deflate)) =>
              /\ result.kind = "Err"
              /\ ~ reader.r.some
              /\ result.value /= None
              /\ result.value[1].msg =
                   <<"Unsupported compression algorithm", result.word>>
         /\ result.kind = "Ok" => reader.r.inner = reader.source
    /\ (reader.wrapped /\ reader.r.some /\ reader.r.kind = "None") =>
         LET inner == reader.r.inner
         IN  /\ output = SubSeq(inner.data, 1, inner.pos)
             /\ result.op = "read" =>
                  /\ result.kind = "Ok"
                  /\ result.value.n = Len(result.value.bytes)
                  /\ result.value.n =
                       Least(Least(result.len, inner.grain),
                             Len(inner.data) - (inner.pos - result.value.n))

\* an unsupported id has been refused
C17_Witness ==
    /\ result.op = "DecompressReader::new"
    /\ result.word = 5
    /\ result.kind = "Err"

\* a read passed through has returned fewer bytes than the buffer holds
C17_WitnessPassThrough ==
    /\ reader.wrapped
    /\ reader.r.some
    /\ reader.r.kind = "None"
    /\ result.op = "read"
    /\ result.len = 3
    /\ result.value.n = 2
    /\ Len(output) = 4

(***************************************************************************)
(* predictor/integer.rs and predictor/floating.rs: the row readers         *)
(***************************************************************************)
\* bounds: the pixels of a row, the samples of a pixel, the rows of the
\* inner stream, and the reads that may fail before the caller gives up
MaxCols == 2
MaxChannels == 2
MaxRows == 2
MaxFailures == 2

\* a mutant: the bytes of a sample are taken as they come
in_order_as_is(order, bytes) == bytes

\* byteorder's read_*_into / write_*_into: the bytes of one sample in the
\* given order as its digits, least significant first, and back
in_order(order, bytes) ==
    IF order = "LittleEndian" THEN bytes ELSE Reverse(bytes)

\* <uN>::wrapping_add on two samples of the same width, digit by digit
RECURSIVE wrapping_add_from(_, _, _, _)
wrapping_add_from(a, b, k, carry) ==
    IF k > Len(a) THEN <<>>
    ELSE <<(a[k] + b[k] + carry) % 256>>
            \o wrapping_add_from(a, b, k + 1, (a[k] + b[k] + carry) \div 256)

wrapping_add(a, b) == wrapping_add_from(a, b, 1, 0)

\* wrapping_add_assign: acc[index] = acc[index].wrapping_add(buffer[index])
wrapping_add_assign(acc, buffer) ==
    [index \in 1..Len(acc) |-> wrapping_add(acc[index], buffer[index])]

\* B::read_*_into(pixel, &mut acc): the samples of one pixel
read_into(d, pixel) ==
    [c \in 1..d.samples |->
        in_order(d.byteorder,
                 SubSeq(pixel, (c - 1) * d.width + 1, c * d.width))]

\* NativeEndian::write_*_into(&acc, pixel): the bytes of one pixel
write_into(d, acc) ==
    [k \in 1..(d.samples * d.width) |->
        in_order(d.native, acc[((k - 1) \div d.width) + 1])
            [((k - 1) % d.width) + 1]]

\* the pixel of index i (from 1) of row.chunks_exact_mut(pixel_size)
chunks_exact(d, row, i) ==
    SubSeq(row, (i - 1) * d.samples * d.width + 1, i * d.samples * d.width)

\* the loop of Decoder::decode over the pixels after the first
RECURSIVE decode_pixels(_, _, _, _)
decode_pixels(d, row, i, acc) ==
    IF i * d.samples * d.width > Len(row)
    THEN SubSeq(row, (i - 1) * d.samples * d.width + 1, Len(row))
    ELSE LET buffer == read_into(d, chunks_exact(d, row, i))
             sum == wrapping_add_assign(acc, buffer)
         IN  write_into(d, sum) \o decode_pixels(d, row, i + 1, sum)

\* Decoder::decode of Decode8 and of Decode16, Decode32, Decode64 (a
\* sample of one byte has one order only)
Decoder_decode(d, row) ==
    IF d.samples * d.width > Len(row)
    THEN row
    ELSE LET acc == read_into(d, chunks_exact(d, row, 1))
         IN  write_into(d, acc) \o decode_pixels(d, row, 2, acc)

\* IntegerPredictorReader::new
IntegerPredictorReader_new(inner, byteorder, ncols, samples, bps, native) ==
    IF bps \notin {1, 2, 4, 8}
    THEN [kind |-> "Err", reader |-> NoReader,
          error |-> Some(Error("AdHoc",
                         <<"Bytes per sample must be 1, 2, 4 or 8, got", bps>>))]
    ELSE [kind |-> "Ok", error |-> None,
          reader |->
            [some |-> TRUE, kind |-> "Integer", inner |-> inner,
             row |-> Zeros(ncols * samples * bps),
             position |-> ncols * samples * bps,
             decoder |-> [width |-> bps, samples |-> samples,
                          byteorder |-> byteorder, native |-> native],
             pulls |-> 0]]

\* FloatPredictorReader::new
FloatPredictorReader_new(inner, ncols, samples, bytespersample, native) ==
    [kind |-> "Ok", error |-> None,
     reader |->
       [some |-> TRUE, kind |-> "Float", inner |-> inner,
        row |-> Zeros(ncols * samples * bytespersample),
        position |-> ncols * samples * bytespersample,
        decoder |-> [width |-> bytespersample, samples |-> samples,
                     byteorder |-> "BigEndian", native |-> native],
        pulls |-> 0]]

\* decode_row, first loop: buffer[col * samples + sample] =
\* row[col * samples + sample].wrapping_add(buffer[(col - 1) * samples + sample]),
\* the first samples bytes being copied
RECURSIVE undo_differencing(_, _, _, _)
undo_differencing(row, samples, i, buffer) ==
    IF i > Len(row) THEN buffer
    ELSE undo_differencing(row, samples, i + 1,
             Append(buffer,
                    IF i <= samples THEN row[i]
                    ELSE (row[i] + buffer[i - samples]) % 256))

\* a mutant: the byte planes are taken in the order of a big-endian target
plane_big(native, bytespersample, byte) == byte

\* decode_row, second loop: the byte plane (from 0) that holds the byte of
\* index byte of a sample, by cfg(target_endian)
plane(native, bytespersample, byte) ==
    IF native = "BigEndian" THEN byte ELSE bytespersample - byte - 1

\* FloatPredictorReader::decode_row
decode_row(d, row) ==
    LET buffer == undo_differencing(row, d.samples, 1, <<>>)
        cols == Len(row) \div d.width
    IN  [k \in 1..(cols * d.width) |->
            buffer[plane(d.native, d.width, (k - 1) % d.width) * cols
                     + ((k - 1) \div d.width) + 1]]

\* Read::read_exact on the inner reader for a buffer of n bytes
read_exact_row(c, n) ==
    IF remaining(c) >= n
    THEN [kind |-> "Ok", bytes |-> taken(c, n), inner |-> advance(c, n)]
    ELSE [kind |-> "Err", bytes |-> taken(c, remaining(c)),
          inner |-> advance(c, remaining(c))]

\* read_another_row of both readers: the cursor is set to 0, the row is
\* overwritten by read_exact and, if that succeeded, decoded in place
read_another_row(r) ==
    LET raw == read_exact_row(r.inner, Len(r.row))
        r0 == [r EXCEPT !.position = 0, !.inner = raw.inner, !.pulls = @ + 1]
    IN  IF raw.kind = "Err"
        THEN [kind |-> "Err",
              reader |-> [r0 EXCEPT !.row =
                             raw.bytes \o SubSeq(@, Len(raw.bytes) + 1, Len(@))]]
        ELSE [kind |-> "Ok",
              reader |-> [r0 EXCEPT !.row =
                             IF r.kind = "Integer"
                             THEN Decoder_decode(r.decoder, raw.bytes)
                             ELSE decode_row(r.decoder, raw.bytes)]]

\* Cursor::read on the row buffer: the bytes copied into a buffer with
\* room bytes left
row_read(r, room) ==
    SubSeq(r.row, r.position + 1, r.position + Least(room, Len(r.row) - r.position))

\* impl Read for IntegerPredictorReader and for FloatPredictorReader
PredictorReader_read(r, len) ==
    LET first == IF r.position /= Len(r.row) THEN row_read(r, len) ELSE <<>>
        r1 == [r EXCEPT !.position = @ + Len(first)]
    IN  IF r1.position = Len(r1.row)
        THEN LET another == read_another_row(r1)
                 second == row_read(another.reader, len - Len(first))
             IN  IF another.kind = "Err"
                 THEN Return("Err", another.reader, <<>>)
                 ELSE Return("Ok",
                             [another.reader EXCEPT !.position = @ + Len(second)],
                             first \o second)
        ELSE Return("Ok", r1, first)

(***************************************************************************)
(* The rows handed to the predictor readers                                *)
(***************************************************************************)
\* two samples of width bytes: the bytes 1, 2, .. (every byte its own, so
\* that their order shows) and all ones (so that every sum carries)
Counting(width) == [k \in 1..width |-> k]

AllOnesOf(width) == [k \in 1..width |-> 255]

\* the orders in which the two samples are laid along a row
Tilings(width) ==
    {<<Counting(width)>>, <<AllOnesOf(width), Counting(width)>>}

\* another row of the same size
Flipped(bytes) == [k \in 1..Len(bytes) |-> 255 - bytes[k]]

\* the rows of n samples
RowsOf(n, width) ==
    {[k \in 1..(n * width) |->
        tiling[(((k - 1) \div width) % Len(tiling)) + 1][((k - 1) % width) + 1]] :
        tiling \in Tilings(width)}

\* an inner stream of k whole rows: the row and another row in turn
RECURSIVE StreamOf(_, _)
StreamOf(row, k) ==
    IF k = 0 THEN <<>>
    ELSE StreamOf(row, k - 1) \o (IF k % 2 = 1 THEN row ELSE Flipped(row))

\* the row of tests::reader_f32: 4 columns, 1 sample, 4 bytes
ReaderF32 == <<63, 1, 0, 0, 64, 128, 64, 64, 128, 0, 0, 0, 0, 0, 0, 0>>

\* what a reader is constructed with, and the byte order of the target
Shape(kind, byteorder, native, ncols, samples, bytespersample) ==
    [kind |-> kind, byteorder |-> byteorder, native |-> native,
     ncols |-> ncols, samples |-> samples, bytespersample |-> bytespersample]

ByteOrderNames == {"LittleEndian", "BigEndian"}

IntegerShapes ==
    {Shape("Integer", byteorder, native, ncols, samples, width) :
        byteorder \in ByteOrderNames, native \in ByteOrderNames,
        ncols \in 1..MaxCols, samples \in 1..MaxChannels,
        width \in {1, 2, 3, 4, 8}}

FloatShapes ==
    {Shape("Float", "BigEndian", native, ncols, samples, width) :
        native \in ByteOrderNames, ncols \in 1..MaxCols,
        samples \in 1..MaxChannels, width \in {2, 4}}

StreamsFor(shape) ==
    {[shape |-> shape, data |-> StreamOf(row, MaxRows)] :
        row \in RowsOf(shape.ncols * shape.samples, shape.bytespersample)}

PredictorInputs ==
    UNION {StreamsFor(shape) : shape \in IntegerShapes \cup FloatShapes}
      \cup {[shape |-> Shape("Float", "BigEndian", native, 4, 1, 4),
             data |-> ReaderF32] : native \in ByteOrderNames}

(***************************************************************************)
(* The predictor readers as a state machine: a stream of rows is wrapped   *)
(* once, then read with buffers of any size                                *)
(***************************************************************************)
InitPredictor ==
    /\ DecoderIdle
    /\ MetadataIdle
    /\ PureIdle
    /\ result = Outcome("init", "Ok", 0)
    /\ output = <<>>
    /\ \E input \in PredictorInputs :
          reader = [source |-> Cursor(input.data, Len(input.data)),
                    shape |-> input.shape, failures |-> 0, r |-> NoReader]

\* IntegerPredictorReader::new
IntegerNew ==
    /\ result.op = "init"
    /\ reader.shape.kind = "Integer"
    /\ LET made == IntegerPredictorReader_new(reader.source,
                       reader.shape.byteorder, reader.shape.ncols,
                       reader.shape.samples, reader.shape.bytespersample,
                       reader.shape.native)
       IN  /\ reader' = [reader EXCEPT !.r = made.reader]
           /\ result' = [Outcome("IntegerPredictorReader::new", made.kind, 0)
                           EXCEPT !.value = made.error]
    /\ UNCHANGED <<output, decoderVars, metadataVars, pureVars>>

\* FloatPredictorReader::new
FloatNew ==
    /\ result.op = "init"
    /\ reader.shape.kind = "Float"
    /\ LET made == FloatPredictorReader_new(reader.source, reader.shape.ncols,
                       reader.shape.samples, reader.shape.bytespersample,
                       reader.shape.native)
       IN  /\ reader' = [reader EXCEPT !.r = made.reader]
           /\ result' = Outcome("FloatPredictorReader::new", made.kind, 0)
    /\ UNCHANGED <<output, decoderVars, metadataVars, pureVars>>

\* <IntegerPredictorReader as Read>::read into a buffer of one of the given
\* sizes, while the caller has not given up
IntegerRead(lens) ==
    /\ reader.r.some
    /\ reader.r.kind = "Integer"
    /\ reader.failures < MaxFailures
    /\ \E len \in lens :
          LET ret == PredictorReader_read(reader.r, len)
          IN  /\ reader' = [reader EXCEPT
                              !.r = ret.reader,
                              !.failures = IF ret.kind = "Err" THEN @ + 1 ELSE @]
              /\ output' = output \o ret.bytes
              /\ result' = [Outcome("read", ret.kind, 0) EXCEPT
                              !.len = len,
                              !.value = [n |-> ret.n, bytes |-> ret.bytes]]
    /\ UNCHANGED <<decoderVars, metadataVars, pureVars>>

\* <FloatPredictorReader as Read>::read into a buffer of one of the given
\* sizes, while the caller has not given up
FloatRead(lens) ==
    /\ reader.r.some
    /\ reader.r.kind = "Float"
    /\ reader.failures < MaxFailures
    /\ \E len \in lens :
          LET ret == PredictorReader_read(reader.r, len)
          IN  /\ reader' = [reader EXCEPT
                              !.r = ret.reader,
                              !.failures = IF ret.kind = "Err" THEN @ + 1 ELSE @]
              /\ output' = output \o ret.bytes
              /\ result' = [Outcome("read", ret.kind, 0) EXCEPT
                              !.len = len,
                              !.value = [n |-> ret.n, bytes |-> ret.bytes]]
    /\ UNCHANGED <<decoderVars, metadataVars, pureVars>>

\* the bytes of a row of the reader
RowBytes ==
    reader.shape.ncols * reader.shape.samples * reader.shape.bytespersample

\* a caller that reads with buffers of any size
NextPredictor ==
    \/ IntegerNew
    \/ FloatNew
    \/ IntegerRead(0..MaxBuf)
    \/ FloatRead(0..MaxBuf)

SpecPredictor == InitPredictor /\ [][NextPredictor]_vars

\* a caller that reads row by row
NextRows ==
    \/ IntegerNew
    \/ FloatNew
    \/ IntegerRead({RowBytes})
    \/ FloatRead({RowBytes})

SpecRows == InitPredictor /\ [][NextRows]_vars

\* ---------------------------------------------------------------------
\* C18..C20: the predictor reversal and its row readers

\* the rows the reader has pulled whole from the inner stream
Pulled == reader.r.inner.pos \div RowBytes

\* the row of index j (from 1) of the inner stream, as stored there
RawRow(j) == SubSeq(reader.source.data, (j - 1) * RowBytes + 1, j * RowBytes)

\* the digit of weight 256^(k-1) of the sample c of the pixel p (both from
\* 0) of a row of samples stored in the byte order order
DigitOf(row, order, p, c, k) ==
    LET W == reader.shape.bytespersample
        at == (p * reader.shape.samples + c) * W
    IN  IF order = "LittleEndian" THEN row[at + k] ELSE row[at + W + 1 - k]

\* the digits of weight 256^(k-1) of the pixels 0..p of a channel, summed
RECURSIVE ColumnSum(_, _, _, _, _)
ColumnSum(row, order, p, c, k) ==
    IF p < 0 THEN 0
    ELSE DigitOf(row, order, p, c, k) + ColumnSum(row, order, p - 1, c, k)

\* the sum of the samples 0..p of a channel from its digit k on: what
\* is carried into the digit k, and the digit k of the sum modulo 2^(8W)
RECURSIVE CarryInto(_, _, _, _, _)
CarryInto(row, order, p, c, k) ==
    IF k = 1 THEN 0
    ELSE (ColumnSum(row, order, p, c, k - 1)
             + CarryInto(row, order, p, c, k - 1)) \div 256

SumDigit(row, order, p, c, k) ==
    (ColumnSum(row, order, p, c, k) + CarryInto(row, order, p, c, k)) % 256

\* C18: the row an IntegerPredictorReader holds after pulling a row is, for
\* every pixel p and channel c, the sum modulo 2^(8W) of the input samples
\* (0, c) .. (p, c) of that row alone, the input samples being read in the
\* byte order of the source and the sums written in the byte order of the
\* target; nothing of an earlier row enters the sums.
C18_PrefixSum ==
    (reader.r.some /\ reader.r.kind = "Integer" /\ Pulled >= 1) =>
        \A p \in 0..(reader.shape.ncols - 1) :
          \A c \in 0..(reader.shape.samples - 1) :
            \A k \in 1..reader.shape.bytespersample :
                DigitOf(reader.r.row, reader.shape.native, p, c, k)
                   = SumDigit(RawRow(Pulled), reader.shape.byteorder, p, c, k)

\* the second row of big-endian 8-byte samples has been decoded on a
\* little-endian target, two pixels of two channels each
C18_Witness ==
    /\ reader.r.some
    /\ reader.r.kind = "Integer"
    /\ Pulled = 2
    /\ reader.shape.bytespersample = 8
    /\ reader.shape.byteorder = "BigEndian"
    /\ reader.shape.native = "LittleEndian"
    /\ reader.shape.ncols = 2
    /\ reader.shape.samples = 2
    /\ reader.r.row /= RawRow(2)

\* the byte i (from 0) of the row with the differencing undone, every byte
\* being added to the byte stride bytes before it
RECURSIVE Undone(_, _, _)
Undone(row, stride, i) ==
    IF i < stride THEN row[i + 1]
    ELSE (row[i + 1] + Undone(row, stride, i - stride)) % 256

\* the row is the byte planes of the undone row, shuffled for the target
TwoStage(stride) ==
    LET bps == reader.shape.bytespersample
        cols == RowBytes \div bps
        raw == RawRow(Pulled)
    IN  \A c \in 0..(cols - 1) :
          \A b \in 0..(bps - 1) :
            reader.r.row[c * bps
                           + (IF reader.shape.native = "LittleEndian"
                              THEN bps - b - 1 ELSE b) + 1]
               = Undone(raw, stride, b * cols + c)

\* the four f32 values 1.0, 2.0, 3.0, 4.0, most significant byte first
OneToFour == <<63, 128, 0, 0, 64, 0, 0, 0, 64, 64, 0, 0, 64, 128, 0, 0>>

\* the row of tests::reader_f32 decodes to 1.0, 2.0, 3.0, 4.0 as the target
\* reads them
ExampleDecoded ==
    reader.source.data = ReaderF32 =>
        \A c \in 0..3 :
            in_order(reader.shape.native, SubSeq(reader.r.row, 4 * c + 1, 4 * c + 4))
               = Reverse(SubSeq(OneToFour, 4 * c + 1, 4 * c + 4))

FloatPulled == reader.r.some /\ reader.r.kind = "Float" /\ Pulled >= 1

C19_WitnessExample ==
    /\ FloatPulled
    /\ reader.source.data = ReaderF32
    /\ output = reader.r.row
    /\ Len(output) = 16

\* the rows of the inner stream, decoded and laid end to end
RECURSIVE DecodedRows(_)
DecodedRows(j) ==
    IF j = 0 THEN <<>>
    ELSE DecodedRows(j - 1)
            \o (IF reader.r.kind = "Integer"
                THEN Decoder_decode(reader.r.decoder, RawRow(j))
                ELSE decode_row(reader.r.decoder, RawRow(j)))

\* C20: whatever the sizes of the read buffers, the bytes the Ok(n) results
\* of a predictor row reader have reported are a prefix of the decoded rows
\* of the inner stream laid end to end, and a row is pulled from the inner
\* reader only when every byte of the rows before it has been reported.
C20_ContinuousStream ==
    reader.r.some =>
        /\ IsPrefix(output, DecodedRows(Len(reader.source.data) \div RowBytes))
        /\ Pulled >= 1 => Len(output) >= (Pulled - 1) * RowBytes

\* ---------------------------------------------------------------------
\* Rational numbers (crates/aira-tiff/src/ratio.rs)
\* ---------------------------------------------------------------------
(***************************************************************************)
(* Bounds of the ratio inputs.                                             *)
(***************************************************************************)
MaxNum == 3           \* numerators and denominators range over -MaxNum..MaxNum

\* i32::MIN and i32::MAX
I32_MIN == -2147483647 - 1
I32_MAX == 2147483647

\* Ratio::new
Ratio_new(num, den) == [num |-> num, den |-> den]

\* Ordering::reverse
reverse(ord) ==
    CASE ord = "Less" -> "Greater"
      [] ord = "Greater" -> "Less"
      [] OTHER -> ord

\* <u32 as Ord>::cmp, <i32 as Ord>::cmp
int_cmp(a, b) == IF a < b THEN "Less" ELSE IF a > b THEN "Greater" ELSE "Equal"

\* sealed::Integer::zero
zero == 0

\* the / and % of the integer types: the quotient rounds towards zero and
\* the remainder has the sign of the dividend; a zero divisor panics, and so
\* does i32::MIN / -1, in every build profile
div_rem(self, other) ==
    IF other = 0 \/ (self = I32_MIN /\ other = -1)
    THEN [kind |-> "Panic", quot |-> 0, rem |-> 0]
    ELSE IF other = I32_MIN
    THEN [kind |-> "Ok", quot |-> IF self = I32_MIN THEN 1 ELSE 0,
          rem |-> IF self = I32_MIN THEN 0 ELSE self]
    ELSE LET d == IF other < 0 THEN -other ELSE other
             fl == self \div d
             m == self % d
             q == IF m = 0 \/ self >= 0 THEN fl ELSE fl + 1
             r == IF m = 0 \/ self >= 0 THEN m ELSE m - d
         IN  [kind |-> "Ok", quot |-> IF other < 0 THEN -q ELSE q, rem |-> r]

\* the adjustment that turns the truncated division into the floored one
floored(qr, other) ==
    IF qr.kind = "Ok" /\ ((qr.rem > 0 /\ other < 0) \/ (qr.rem < 0 /\ other > 0))
    THEN [qr EXCEPT !.quot = qr.quot - 1, !.rem = qr.rem + other]
    ELSE qr

\* sealed::Integer::div_mod_floor, for T = "u32" and T = "i32"
div_mod_floor(T, self, other) ==
    IF T = "u32" THEN div_rem(self, other)
    ELSE floored(div_rem(self, other), other)

\* <Ratio<T> as Ord>::cmp: an Ordering, or "Panic"
RECURSIVE Ratio_cmp(_, _, _)
Ratio_cmp(T, self, other) ==
    IF self.den = other.den
    THEN LET ord == int_cmp(self.num, other.num)
         IN  IF self.den < zero THEN reverse(ord) ELSE ord
    ELSE IF self.num = other.num
    THEN IF self.num = zero THEN "Equal"
         ELSE LET ord == int_cmp(self.den, other.den)
              IN  IF self.num < zero THEN ord ELSE reverse(ord)
    ELSE LET s == div_mod_floor(T, self.num, self.den)
             o == div_mod_floor(T, other.num, other.den)
         IN  IF s.kind = "Panic" \/ o.kind = "Panic" THEN "Panic"
             ELSE IF int_cmp(s.quot, o.quot) /= "Equal"
             THEN int_cmp(s.quot, o.quot)
             ELSE CASE s.rem = zero /\ o.rem = zero -> "Equal"
                    [] s.rem = zero /\ o.rem /= zero -> "Less"
                    [] s.rem /= zero /\ o.rem = zero -> "Greater"
                    [] OTHER ->
                        reverse(Ratio_cmp(T, Ratio_new(self.den, s.rem),
                                          Ratio_new(other.den, o.rem)))

\* <Ratio<T> as PartialEq>::eq
Ratio_eq(T, self, other) ==
    LET ord == Ratio_cmp(T, self, other)
    IN  [kind |-> IF ord = "Panic" THEN "Panic" ELSE "Ok",
         value |-> ord = "Equal"]

(***************************************************************************)
(* The ratios compared: small numerators and denominators, the values of   *)
(* the documented examples, and the ends of the integer range.  u32 has no *)
(* operation that depends on its width (only /, % and comparisons), so its *)
(* values are naturals.                                                    *)
(***************************************************************************)
IntegerTypes == {"u32", "i32"}

ValuesOf(T) ==
    IF T = "u32" THEN (0..MaxNum) \cup {5, 10, I32_MAX}
    ELSE ((0 - MaxNum)..MaxNum) \cup {I32_MIN, I32_MAX}

RatiosOf(T) == {Ratio_new(n, d) : n \in ValuesOf(T), d \in ValuesOf(T)}

\* the third operand of a chain of comparisons
ThirdOf(T) == {Ratio_new(n, 1) : n \in {0, 1}} \cup {Ratio_new(1, 2)}

InitRatio ==
    /\ DecoderIdle
    /\ MetadataIdle
    /\ StreamIdle
    /\ result = Outcome("init", "Ok", 0)
    /\ \E T \in IntegerTypes :
          \E a \in RatiosOf(T), b \in RatiosOf(T), c \in ThirdOf(T) :
              operands = [T |-> T, a |-> a, b |-> b, c |-> c]

\* a.cmp(&b), b.cmp(&a), b.cmp(&c) and a.cmp(&c)
Cmp ==
    /\ result.op = "init"
    /\ LET T == operands.T
           ab == Ratio_cmp(T, operands.a, operands.b)
       IN  result' = [Outcome("cmp", IF ab = "Panic" THEN "Panic" ELSE "Ok", 0)
                        EXCEPT !.value =
                            [ab |-> ab,
                             ba |-> Ratio_cmp(T, operands.b, operands.a),
                             bc |-> Ratio_cmp(T, operands.b, operands.c),
                             ac |-> Ratio_cmp(T, operands.a, operands.c)]]
    /\ UNCHANGED <<decoderVars, metadataVars, streamVars, pureVars>>

\* a == b
Eq ==
    /\ result.op = "init"
    /\ LET r == Ratio_eq(operands.T, operands.a, operands.b)
       IN  result' = [Outcome("eq", r.kind, 0) EXCEPT !.value = r.value]
    /\ UNCHANGED <<decoderVars, metadataVars, streamVars, pureVars>>

NextRatio ==
    \/ Cmp
    \/ Eq

SpecRatio == InitRatio /\ [][NextRatio]_vars

\* ---------------------------------------------------------------------
\* C21, C26: the ordering of ratios against the cross products
\* ---------------------------------------------------------------------
\* the magnitude of an i32 or u32 as four base-256 digits
Magnitude(x) ==
    IF x = I32_MIN THEN <<0, 0, 0, 128>>
    ELSE Digits(IF x < 0 THEN -x ELSE x, 4)

Sign(x) == IF x < 0 THEN -1 ELSE IF x > 0 THEN 1 ELSE 0

\* the digits of a product of two magnitudes, from digit i on
RECURSIVE Product(_, _, _, _)
Product(a, b, i, c) ==
    IF i > 8 THEN <<>>
    ELSE LET Term(j) == IF i + 1 - j \in 1..4 THEN a[j] * b[i + 1 - j] ELSE 0
             s == c + Term(1) + Term(2) + Term(3) + Term(4)
         IN  <<s % 256>> \o Product(a, b, i + 1, s \div 256)

\* the order of two magnitudes, from digit i down
RECURSIVE MagnitudeCmp(_, _, _)
MagnitudeCmp(m, n, i) ==
    IF i = 0 THEN "Equal"
    ELSE IF m[i] /= n[i] THEN int_cmp(m[i], n[i])
    ELSE MagnitudeCmp(m, n, i - 1)

\* the order of x * y and u * v, computed without overflow
ProductCmp(x, y, u, v) ==
    LET s == Sign(x) * Sign(y)
        t == Sign(u) * Sign(v)
        mags == MagnitudeCmp(Product(Magnitude(x), Magnitude(y), 1, 0),
                             Product(Magnitude(u), Magnitude(v), 1, 0), 8)
    IN  IF s /= t THEN int_cmp(s, t)
        ELSE IF s = 0 THEN "Equal"
        ELSE IF s < 0 THEN reverse(mags) ELSE mags

\* the order of a.num * b.den and b.num * a.den, reversed when exactly one
\* of the two denominators is negative
CrossCmp(a, b) ==
    LET ord == ProductCmp(a.num, b.den, b.num, a.den)
    IN  IF (a.den < 0) /= (b.den < 0) THEN reverse(ord) ELSE ord

Compared == result.op = "cmp"

NonZeroDens == operands.a.den /= 0 /\ operands.b.den /= 0

\* a chain a <= b <= c (or a >= b >= c) is closed by the order of a and c
Transitive(ab, bc, ac) ==
    /\ ab = "Equal" => ac = bc
    /\ bc = "Equal" => ac = ab
    /\ ab = bc => ac = ab

\* C21: for ratios a and b with non-zero denominators, a.cmp(b) is the order
\* of a.num * b.den and b.num * a.den taken in unbounded integers, reversed
\* when exactly one denominator is negative; a == b holds exactly when the
\* cross products are equal; cmp is antisymmetric and transitive.
C21_CrossProducts ==
    /\ Compared /\ NonZeroDens =>
          /\ result.value.ab = CrossCmp(operands.a, operands.b)
          /\ result.value.ba = reverse(result.value.ab)
          /\ Transitive(result.value.ab, result.value.bc, result.value.ac)
    /\ result.op = "eq" /\ NonZeroDens =>
          /\ result.kind = "Ok"
          /\ result.value = (CrossCmp(operands.a, operands.b) = "Equal")

\* n/0 against a ratio with a non-zero denominator: +infinity for n > 0,
\* -infinity for n < 0
Infinite(x, y) == x.den = 0 /\ x.num /= 0 /\ y.den /= 0

\* C26: when at least one of the two denominators is 0, cmp and == return
\* without panicking, n/0 with n > 0 is greater than every ratio with a
\* non-zero denominator and n/0 with n < 0 is less than every such ratio.
C26_ZeroDenominators ==
    (result.op \in {"cmp", "eq"} /\ ~ NonZeroDens) =>
        /\ result.kind = "Ok"
        /\ Compared /\ Infinite(operands.a, operands.b) =>
              result.value.ab = int_cmp(operands.a.num, 0)
        /\ Compared /\ Infinite(operands.b, operands.a) =>
              result.value.ab = int_cmp(0, operands.b.num)

\* ---------------------------------------------------------------------
\* The byte-order engine (crates/aira-byteorder/src/lib.rs)
\* ---------------------------------------------------------------------
(***************************************************************************)
(* Bounds of the byte-order inputs.                                        *)
(***************************************************************************)
MaxSlice == 2         \* longest slice handed to encode_slice / decode_slice

(***************************************************************************)
(* An unsigned integer of N bytes is its N base-256 digits, least          *)
(* significant first.  A signed integer is a sign and a magnitude, a float *)
(* is the record of its bit pattern; `as` casts and to_bits / from_bits    *)
(* carry them to and from the unsigned integer of the same width.          *)
(***************************************************************************)
\* uN::swap_bytes
swap_bytes(bits) == Reverse(bits)

\* uN::from_be, uN::to_be, uN::from_le, uN::to_le on a `target` build
from_be(target, bits) == IF target = "BigEndian" THEN bits ELSE swap_bytes(bits)

\* to_be that never swaps
to_be_as_is(target, bits) == bits

to_be(target, bits) == IF target = "BigEndian" THEN bits ELSE swap_bytes(bits)

from_le(target, bits) == IF target = "LittleEndian" THEN bits ELSE swap_bytes(bits)

to_le(target, bits) == IF target = "LittleEndian" THEN bits ELSE swap_bytes(bits)

\* uN::from_be_bytes, uN::to_be_bytes, uN::from_le_bytes, uN::to_le_bytes
from_be_bytes(bytes) == [k \in 1..Len(bytes) |-> bytes[Len(bytes) + 1 - k]]

to_be_bytes(bits) == [k \in 1..Len(bits) |-> bits[Len(bits) + 1 - k]]

from_le_bytes(bytes) == bytes

to_le_bytes(bits) == bits

\* the two's complement of an N-byte pattern: every digit inverted, plus one
RECURSIVE Negated(_, _, _)
Negated(bits, k, carry) ==
    IF k > Len(bits) THEN <<>>
    ELSE LET d == (255 - bits[k]) + carry
         IN  <<d % 256>> \o Negated(bits, k + 1, d \div 256)

\* `value as uN` for a signed integer, to_bits for a float
as_unsigned(value) ==
    IF value.kind = "signed"
    THEN IF value.neg THEN Negated(value.mag, 1, 1) ELSE value.mag
    ELSE value.bits

\* `bits as iN` for a signed integer, from_bits for a float
as_typed(kind, bits) ==
    CASE kind = "signed" ->
            IF bits[Len(bits)] >= 128
            THEN [kind |-> kind, neg |-> TRUE, mag |-> Negated(bits, 1, 1)]
            ELSE [kind |-> kind, neg |-> FALSE, mag |-> bits]
      [] OTHER -> [kind |-> kind, bits |-> bits]

\* ByteOrder::decode_u16 .. decode_u128 of BigEndian and LittleEndian
decode_unsigned(B, target, bits) ==
    IF B = "BigEndian" THEN from_be(target, bits) ELSE from_le(target, bits)

\* ByteOrder::encode_u16 .. encode_u128
encode_unsigned(B, target, bits) ==
    IF B = "BigEndian" THEN to_be(target, bits) ELSE to_le(target, bits)

\* ByteOrder::read_u16 .. read_u128: src[..N] panics on a short source
read_unsigned(B, N, src) ==
    IF Len(src) < N THEN [kind |-> "Panic", bits |-> <<>>]
    ELSE [kind |-> "Ok",
          bits |-> IF B = "BigEndian" THEN from_be_bytes(SubSeq(src, 1, N))
                   ELSE from_le_bytes(SubSeq(src, 1, N))]

\* ByteOrder::write_u16 .. write_u128: dst[..N] panics on a short buffer
write_unsigned(B, bits, dst) ==
    LET N == Len(bits)
        bytes == IF B = "BigEndian" THEN to_be_bytes(bits) ELSE to_le_bytes(bits)
    IN  IF Len(dst) < N THEN [kind |-> "Panic", dst |-> dst]
        ELSE [kind |-> "Ok",
              dst |-> [k \in 1..Len(dst) |-> IF k <= N THEN bytes[k] ELSE dst[k]]]

\* ByteOrder::decode_i16 .. decode_f128 (and the unsigned forms)
ByteOrder_decode(B, target, value) ==
    as_typed(value.kind, decode_unsigned(B, target, as_unsigned(value)))

\* ByteOrder::encode_i16 .. encode_f128 (and the unsigned forms)
ByteOrder_encode(B, target, value) ==
    as_typed(value.kind, encode_unsigned(B, target, as_unsigned(value)))

\* ByteOrder::read_i16 .. read_f128 (and the unsigned forms)
ByteOrder_read(B, kind, N, src) ==
    LET r == read_unsigned(B, N, src)
    IN  [kind |-> r.kind,
         value |-> IF r.kind = "Ok" THEN as_typed(kind, r.bits) ELSE <<>>]

\* ByteOrder::write_i16 .. write_f128 (and the unsigned forms)
ByteOrder_write(B, value, dst) == write_unsigned(B, as_unsigned(value), dst)

\* ByteOrder::decode_slice_u16 .. decode_slice_f128
decode_slice(B, target, values) ==
    [k \in 1..Len(values) |-> ByteOrder_decode(B, target, values[k])]

\* ByteOrder::encode_slice_u16 .. encode_slice_f128
encode_slice(B, target, values) ==
    [k \in 1..Len(values) |-> ByteOrder_encode(B, target, values[k])]

(***************************************************************************)
(* The values converted: for every width, the patterns 01 02 .. N, all     *)
(* zeros, all ones and the top bit alone, as unsigned, signed and float.   *)
(***************************************************************************)
ByteWidths == {2, 4, 8, 16}

ValueKinds == {"unsigned", "signed", "float"}

TopBit(N) == [k \in 1..N |-> IF k = N THEN 128 ELSE 0]

Patterns(N) == {Counting(N), Zeros(N), AllOnesOf(N), TopBit(N)}

ValuesIn(kind, N) == {as_typed(kind, bits) : bits \in Patterns(N)}

RECURSIVE SlicesOf(_, _)
SlicesOf(values, n) ==
    IF n = 0 THEN {<<>>}
    ELSE LET shorter == SlicesOf(values, n - 1)
         IN  shorter \cup {<<v>> \o t : v \in values, t \in {u \in shorter : Len(u) = n - 1}}

InitByteOrder ==
    /\ DecoderIdle
    /\ MetadataIdle
    /\ StreamIdle
    /\ result = Outcome("init", "Ok", 0)
    /\ \E B \in ByteOrderNames, target \in ByteOrderNames :
          \E kind \in ValueKinds, N \in ByteWidths :
              \E values \in SlicesOf(ValuesIn(kind, N), MaxSlice) :
                  operands = [B |-> B, target |-> target, kind |-> kind,
                              N |-> N, values |-> values]

\* B::encode_* on the first value
Encode ==
    /\ result.op = "init"
    /\ Len(operands.values) > 0
    /\ result' = [Outcome("encode", "Ok", 0) EXCEPT !.value =
                    ByteOrder_encode(operands.B, operands.target, operands.values[1])]
    /\ UNCHANGED <<decoderVars, metadataVars, streamVars, pureVars>>

\* B::decode_* on the value encode returned
Decode_ ==
    /\ result.op = "encode"
    /\ result' = [Outcome("decode", "Ok", 0) EXCEPT !.value =
                    ByteOrder_decode(operands.B, operands.target, result.value)]
    /\ UNCHANGED <<decoderVars, metadataVars, streamVars, pureVars>>

\* B::write_* of the first value into a zeroed buffer of N - 1 .. N + 1 bytes
Write ==
    /\ result.op = "init"
    /\ Len(operands.values) > 0
    /\ \E len \in (operands.N - 1)..(operands.N + 1) :
          LET w == ByteOrder_write(operands.B, operands.values[1], Zeros(len))
          IN  result' = [Outcome("write", w.kind, 0) EXCEPT !.len = len,
                                                            !.value = w.dst]
    /\ UNCHANGED <<decoderVars, metadataVars, streamVars, pureVars>>

\* B::read_* from the buffer write filled, or from its first N - 1 bytes
Read ==
    /\ result.op = "write"
    /\ result.kind = "Ok"
    /\ \E len \in {operands.N - 1, result.len} :
          LET r == ByteOrder_read(operands.B, operands.kind, operands.N,
                                  SubSeq(result.value, 1, len))
          IN  result' = [Outcome("read", r.kind, 0) EXCEPT !.len = len,
                                                           !.value = r.value]
    /\ UNCHANGED <<decoderVars, metadataVars, streamVars, pureVars>>

\* B::encode_slice_* on the whole slice
EncodeSlice ==
    /\ result.op = "init"
    /\ result' = [Outcome("encode_slice", "Ok", 0) EXCEPT !.value =
                    encode_slice(operands.B, operands.target, operands.values)]
    /\ UNCHANGED <<decoderVars, metadataVars, streamVars, pureVars>>

\* B::decode_slice_* on the slice encode_slice left
DecodeSlice ==
    /\ result.op = "encode_slice"
    /\ result' = [Outcome("decode_slice", "Ok", 0) EXCEPT !.value =
                    decode_slice(operands.B, operands.target, result.value)]
    /\ UNCHANGED <<decoderVars, metadataVars, streamVars, pureVars>>

NextByteOrder ==
    \/ Encode
    \/ Decode_
    \/ Write
    \/ Read
    \/ EncodeSlice
    \/ DecodeSlice

SpecByteOrder == InitByteOrder /\ [][NextByteOrder]_vars

\* ---------------------------------------------------------------------
\* C22: the round trips of the byte-order engine
\* ---------------------------------------------------------------------
\* the byte of significance k (1 the least) of a value's bit pattern
ByteOfSignificance(value, k) == as_unsigned(value)[k]

\* C22: for both byte orders, every width and every unsigned, signed or
\* float value, decode after encode returns the value bit for bit, read of
\* the bytes write produced returns the value, decode_slice after
\* encode_slice restores every element, and write puts the most significant
\* byte first for BigEndian and the least significant first for LittleEndian.
C22_RoundTrip ==
    /\ result.op = "decode" => result.value = operands.values[1]
    /\ result.op = "decode_slice" => result.value = operands.values
    /\ result.op = "read" /\ result.kind = "Ok" =>
          result.value = operands.values[1]
    /\ result.op = "write" /\ result.kind = "Ok" =>
          \A k \in 1..operands.N :
              result.value[k] =
                  ByteOfSignificance(operands.values[1],
                      IF operands.B = "BigEndian" THEN operands.N + 1 - k ELSE k)

\* a signed value with the top bit set came back from decode after encode in
\* the order that is not the target's, and a two-element slice was restored
C22_Witness ==
    /\ result.op = "decode"
    /\ operands.B /= operands.target
    /\ operands.kind = "signed"
    /\ operands.values[1].neg
    /\ operands.values[1].mag = Zeros(operands.N - 1) \o <<128>>
    /\ operands.N = 16

\* a 64-bit float pattern 01 02 .. 08 written big-endian and read back
C22_WitnessWriteRead ==
    /\ result.op = "read"
    /\ result.kind = "Ok"
    /\ operands.B = "BigEndian"
    /\ operands.kind = "float"
    /\ operands.values[1].bits = Counting(8)

\* a slice of two different elements restored by decode_slice
C22_WitnessSlice ==
    /\ result.op = "decode_slice"
    /\ Len(operands.values) = 2
    /\ operands.values[1] /= operands.values[2]
    /\ operands.B /= operands.target

\* ---------------------------------------------------------------------
\* C23, C24, C30: the structural decoder on untrusted input
\* ---------------------------------------------------------------------
\* C23: next_directory and next_entry return Ok or Err on every byte
\* stream and never panic, BigTIFF files whose entry count or value count
\* overflows a u64 included.
C23_NeverPanics ==
    result.op \in {"next_directory", "next_entry"} => result.kind /= "Panic"

\* C24: after next_directory yields the directory at offset O with N
\* entries, the iterator's next-offset location is O + 2 + 12 N (Classic) or
\* O + 8 + 20 N (BigTiff), and the handle's next_offset is the offset word
\* (4 bytes in Classic, 8 in BigTiff) the file holds at that location.
C24_NextOffsetLoc ==
    (result.op = "next_directory" /\ result.kind = "Some") =>
        LET classic == decoder.version = "Classic"
            O == directory.offset
            N == directory.entries_count
            at == ToNat(O) + (IF classic THEN 2 ELSE 8)
                  + (IF classic THEN 12 ELSE 20) * ToNat(N)
        IN  /\ Fits(O) /\ Fits(N)
            /\ directories.next_offset_loc = U64(at)
            /\ directory.next_offset = NumberAt(at, IF classic THEN 4 ELSE 8)

\* the second directory of a BigTiff file was yielded, it has entries and
\* its offset word is not zero
C24_Witness ==
    /\ result.op = "next_directory"
    /\ result.kind = "Some"
    /\ decoder.version = "BigTiff"
    /\ Len(yielded) = 2
    /\ directory.entries_count \in {U64(1), U64(2)}
    /\ directory.next_offset /= U64(0)

\* the same in a Classic file
C24_WitnessClassic ==
    /\ result.op = "next_directory"
    /\ result.kind = "Some"
    /\ decoder.version = "Classic"
    /\ directory.entries_count = U64(2)
    /\ directories.next_offset_loc = U64(ToNat(directory.offset) + 26)

\* ---------------------------------------------------------------------
\* The integer predictor kernels (crates/aira-tiff/src/predictor/int.rs and
\* int/fixed.rs)
\* ---------------------------------------------------------------------
\* DecodeU8::new(samples), DecodeU16::<B>::new(samples), .. on a target of
\* byte order native
DecodeUint_new(B, samples, width, native) ==
    [byteorder |-> B, samples |-> samples, width |-> width, native |-> native]

\* <DecodeU8 as Decoder>::decode, <DecodeU16<B> as Decoder>::decode, ..: the
\* first pixel is read into acc and written back in native order, every
\* later pixel is read into buffer, added to acc and replaced by acc; the
\* closing assert panics on a row that is no whole number of pixels
DecodeUint_decode(d, row) ==
    LET pixel_size == d.samples * d.width
    IN  IF pixel_size = 0 THEN [kind |-> "Panic", row |-> row]
        ELSE [kind |-> IF Len(row) % pixel_size = 0 THEN "Ok" ELSE "Panic",
              row |-> IF Len(row) < pixel_size THEN row
                      ELSE LET acc == read_into(d, chunks_exact(d, row, 1))
                           IN  write_into(d, acc) \o decode_pixels(d, row, 2, acc)]

\* a pixel of one sample whatever N
fixed_pixel_size_one(N, width) == width

\* fixed::decode_*: pixel_size = size_of::<[$ty; N]>()
fixed_pixel_size(N, width) == N * width

\* fixed::decode_*: the samples of the row from sample j (from 1) on, where
\* acc[c] is the value accumulated for channel c: a sample of the first
\* pixel is read in order B and written back in native order, a later one is
\* added to acc[c] first; the bytes past the last whole pixel stay
RECURSIVE fixed_samples(_, _, _, _, _, _, _)
fixed_samples(N, B, width, native, row, j, acc) ==
    LET pixel_size == fixed_pixel_size(N, width)
        per_pixel == pixel_size \div width
        whole == (Len(row) \div pixel_size) * pixel_size
    IN  IF j * width > whole THEN SubSeq(row, whole + 1, Len(row))
        ELSE LET c == ((j - 1) % per_pixel) + 1
                 sample == in_order(B, SubSeq(row, (j - 1) * width + 1, j * width))
                 value == IF j <= per_pixel THEN sample
                          ELSE wrapping_add(acc[c], sample)
             IN  in_order(native, value)
                 \o fixed_samples(N, B, width, native, row, j + 1,
                                  [acc EXCEPT ![c] = value])

\* fixed::decode_u8::<N>, fixed::decode_u16::<N, B>, decode_u32, decode_u64
fixed_decode(N, B, width, native, row) ==
    LET pixel_size == fixed_pixel_size(N, width)
    IN  [kind |-> IF Len(row) % pixel_size = 0 THEN "Ok" ELSE "Panic",
         row |-> fixed_samples(N, B, width, native, row, 1,
                               [c \in 1..N |-> Zeros(width)])]

(***************************************************************************)
(* The rows decoded: 0 .. MaxCols + 1 pixels of 1 .. 4 samples of 1, 2, 4  *)
(* or 8 bytes, and the same with one byte more.                            *)
(***************************************************************************)
\* the sample counts build_decoder gives a fixed kernel to
Arities == 1..4

SampleWidths == {1, 2, 4, 8}

KernelRows(N, width) ==
    UNION {RowsOf(p * N, width) \cup {Flipped(row) : row \in RowsOf(p * N, width)} :
              p \in 0..(MaxCols + 1)}

\* no kernel has run
NoRun == [kind |-> "None", row |-> <<>>]

InitKernels ==
    /\ DecoderIdle
    /\ MetadataIdle
    /\ StreamIdle
    /\ result = [Outcome("init", "Ok", 0) EXCEPT
                    !.value = [fixed |-> NoRun, dynamic |-> NoRun]]
    /\ \E N \in Arities, width \in SampleWidths :
          \E B \in ByteOrderNames, native \in ByteOrderNames :
              \E row \in KernelRows(N, width), extra \in {<<>>, <<7>>} :
                  operands = [N |-> N, width |-> width, B |-> B,
                              native |-> native, row |-> row \o extra]

\* fixed::decode_*::<N, B>(&mut row) on a copy of the row
FixedDecode ==
    /\ result.value.fixed = NoRun
    /\ result' = [Outcome("fixed", "Ok", 0) EXCEPT !.value =
                    [result.value EXCEPT !.fixed =
                        fixed_decode(operands.N, operands.B, operands.width,
                                     operands.native, operands.row)]]
    /\ UNCHANGED <<decoderVars, metadataVars, streamVars, pureVars>>

\* Decode*::<B>::new(N).decode(&mut row) on a copy of the row
DynamicDecode ==
    /\ result.value.dynamic = NoRun
    /\ result' = [Outcome("dynamic", "Ok", 0) EXCEPT !.value =
                    [result.value EXCEPT !.dynamic =
                        DecodeUint_decode(
                            DecodeUint_new(operands.B, operands.N,
                                           operands.width, operands.native),
                            operands.row)]]
    /\ UNCHANGED <<decoderVars, metadataVars, streamVars, pureVars>>

NextKernels ==
    \/ FixedDecode
    \/ DynamicDecode

SpecKernels == InitKernels /\ [][NextKernels]_vars

\* ---------------------------------------------------------------------
\* C25: the fixed-arity kernels against the dynamic-arity decoders
\* ---------------------------------------------------------------------
BothRan == result.value.fixed /= NoRun /\ result.value.dynamic /= NoRun

WholePixels == Len(operands.row) % (operands.N * operands.width) = 0

\* C25: for 1 to 4 samples of 1, 2, 4 or 8 bytes, both byte orders and every
\* row that is a whole number of pixels, the fixed kernel and the dynamic
\* decoder built for the same samples both return and leave the same bytes
\* in the row.
C25_KernelsAgree ==
    (BothRan /\ WholePixels) =>
        /\ result.value.fixed.kind = "Ok"
        /\ result.value.dynamic.kind = "Ok"
        /\ result.value.fixed.row = result.value.dynamic.row

\* both ran on a row of three pixels of two big-endian 16-bit samples on a
\* little-endian target, and the row changed
C25_Witness ==
    /\ BothRan
    /\ operands.N = 2
    /\ operands.width = 2
    /\ operands.B = "BigEndian"
    /\ operands.native = "LittleEndian"
    /\ Len(operands.row) = 12
    /\ result.value.fixed.row /= operands.row
    /\ result.value.fixed.row = result.value.dynamic.row

\* ---------------------------------------------------------------------
\* C27: the chunks of an accepted Metadata lie inside the image
\* ---------------------------------------------------------------------
\* a chunk that lies inside the image of the Chunks iterator
Inside(chunk) ==
    /\ chunk.origin[1] < chunks.image_size[1]
    /\ chunk.origin[2] < chunks.image_size[2]
    /\ 1 <= chunk.size[1] /\ chunk.size[1] <= chunks.chunk_size[1]
    /\ 1 <= chunk.size[2] /\ chunk.size[2] <= chunks.chunk_size[2]
    /\ chunk.origin[1] + chunk.size[1] <= chunks.image_size[1]
    /\ chunk.origin[2] + chunk.size[2] <= chunks.image_size[2]

\* C27: for every Metadata build accepts, one with more offsets than
\* expected chunks included, no next or next_back call panics on an
\* arithmetic overflow and every chunk yielded lies inside the image.
C27_ChunksInside ==
    chunks.some =>
        /\ result.op \in {"next", "next_back"} => result.kind /= "Panic"
        /\ \A k \in 1..Len(chunks.front) : Inside(chunks.front[k])
        /\ \A k \in 1..Len(chunks.back) : Inside(chunks.back[k])

\* ---------------------------------------------------------------------
\* C28: PackBitsReader::read terminates
\* ---------------------------------------------------------------------
\* C28: every read of a PackBits reader returns Ok or Err after finitely
\* many turns of its loop, whatever the source and the buffer size, and
\* between calls a stored Repeat or Literal run has a count in 1..128.
C28_ReadTerminates ==
    PackBitsMade =>
        /\ result.op = "read" => result.kind \in {"Ok", "Err"}
        /\ reader.r.state.tag \in {"Repeat", "Literal"} =>
              reader.r.state.count \in 1..128

\* ---------------------------------------------------------------------
\* C29: the predictor row readers lose no delivered byte
\* ---------------------------------------------------------------------
\* the read copies bytes of the current row into the caller's buffer first
CopiesFirst == reader.r.position < Len(reader.r.row) /\ result'.len > 0

\* C29: no read of a predictor row reader returns Err after it has copied
\* bytes of the current row into the caller's buffer; so a stream of k whole
\* rows read in pieces whose sizes sum to k rows never fails.
C29_NoBytesLost ==
    [][ (reader.r.some /\ result'.op = "read" /\ CopiesFirst)
          => result'.kind /= "Err" ]_vars

\* ---------------------------------------------------------------------
\* C30: a failed next_entry leaves the iterator where it was
\* ---------------------------------------------------------------------
\* C30: a next_entry call that returns an error leaves the remaining-entries
\* counter and the entry cursor unchanged, and the call that follows it on
\* the unchanged source fails again in the same way.
C30_ErrorLeavesIterator ==
    [][ /\ (result'.op = "next_entry" /\ result'.kind = "Err") =>
               entries' = entries
        /\ (result.op = "next_entry" /\ result.kind = "Err"
                /\ result'.op = "next_entry") =>
               /\ result'.kind = "Err"
               /\ result'.io = result.io
               /\ entries' = entries ]_vars

\* a call failed, and the call after it failed again
C30_Witness ==
    /\ result.op = "next_entry"
    /\ result.kind = "Err"
    /\ result.value = <<"retry">>
    /\ entries.some
    /\ entries.entries_count /= U64(0)

====
